---- MODULE Spec2Model ----
(***************************************************************************)
(* Real-time catalog and order synchronisation of grab-n-go.               *)
(*                                                                         *)
(* The repository holds three revisions of the Express/socket.io server:   *)
(*   "server"   src/backend/server.js   (callback style, hardened)         *)
(*   "part_003" src/unnamed/part_003    (async/await style, hardened)      *)
(*   "part_004" src/unnamed/part_004    (first revision; the only one with *)
(*                                       PUT /api/admin/orders/:id/status) *)
(* The variable build fixes which revision is running; every handler is    *)
(* translated per revision.  Money is kept in mills (1/1000 of a currency  *)
(* unit) on the JavaScript side and in cents in DECIMAL(.,2) columns.      *)
(***************************************************************************)
EXTENDS Integers, Sequences, FiniteSets, TLC

(* ------------------------------ bounds --------------------------------- *)
MaxClock == 2
MaxItems == 2
MaxQty == 2
NumReqs == 2
NumConns == 3
NumUpds == 2
MaxCategories == 1
MaxPublished == 2
NumMenuReqs == 2
MaxCache == 2
NumRegs == 2

(* ------------------------------ domains -------------------------------- *)
Builds == {"server", "part_003", "part_004"}

\* users table: user_id -> role  (schema ENUM('customer','admin','staff'))
CustomerIds == {1, 2}
StaffIds == {3}
AdminIds == {4}
UserIds == CustomerIds \cup StaffIds \cup AdminIds

RoleOf(uid) ==
  IF uid \in CustomerIds THEN "customer"
  ELSE IF uid \in StaffIds THEN "staff"
  ELSE IF uid \in AdminIds THEN "admin"
  ELSE "none"

\* decoded JWT payload; userId 0, named FALSE, role "none" stand for a
\* missing (undefined) field
NoUser == [userId |-> 0, named |-> FALSE, role |-> "none"]

LoginPayload(uid) == [userId |-> uid, named |-> TRUE, role |-> RoleOf(uid)]

\* payload signed by the registration route of src/backend/server.js:
\* { user_id, role } - neither userId nor username
RegisterPayload(uid) == [userId |-> 0, named |-> FALSE, role |-> RoleOf(uid)]

\* a handshake token: absent, failing jwt.verify (bad signature or expired),
\* or verifying to a payload
NoToken == [present |-> FALSE, verifies |-> FALSE, payload |-> NoUser]
BadToken == [present |-> TRUE, verifies |-> FALSE, payload |-> NoUser]
GoodToken(p) == [present |-> TRUE, verifies |-> TRUE, payload |-> p]

\* tokens as the login route signs them
LoginTokens == {GoodToken(LoginPayload(u)) : u \in UserIds}

\* validly signed tokens lacking one or more identity fields
PartialPayloads ==
  {RegisterPayload(1),
   [userId |-> 0, named |-> TRUE, role |-> "customer"],
   [userId |-> 1, named |-> FALSE, role |-> "customer"],
   [userId |-> 1, named |-> TRUE, role |-> "none"]}

Tokens ==
  {NoToken, BadToken} \cup LoginTokens \cup {GoodToken(p) : p \in PartialPayloads}

ConnIds == 1..NumConns
ReqIds == 1..NumReqs
UpdIds == 1..NumUpds
MenuReqIds == 1..NumMenuReqs

\* socket.io rooms
AdminsRoom == [kind |-> "admins", id |-> 0]
CustomersRoom == [kind |-> "customers", id |-> 0]
UserRoom(uid) == [kind |-> "user", id |-> uid]

VARIABLES
  build,        \* which server revision runs
  now,          \* Date.now()
  conns,        \* socket.io connections: state, socket.user, rooms
  inbox,        \* messages delivered to each connection, in order
  published,    \* every io.to(room).emit(...) made, in order
  orders,       \* committed rows of table orders
  order_items,  \* committed rows of table order_items
  nextOrderId,  \* AUTO_INCREMENT counter of orders
  reqs,         \* POST /api/orders handlers, one slot per request
  upds,         \* PUT /api/admin/orders/:id/status handlers, one slot each
  categories,   \* committed rows of table categories
  menu_items,   \* committed rows of table menu_items
  nextItemId,   \* AUTO_INCREMENT counter of menu_items
  menuReqs,     \* menu route handlers (POST, PUT, DELETE), one slot each
  client,       \* a browser: the mounted component, its cache, its fetch
  pool,         \* per order request: connections acquired and released
  users,        \* committed rows of table users
  regs          \* POST /api/auth/register handlers, one slot per request

vars == <<build, now, conns, inbox, published, orders, order_items,
          nextOrderId, reqs, upds, categories, menu_items, nextItemId,
          menuReqs, client, pool, users, regs>>

\* the catalog item store and its handlers
menuVars == <<menu_items, nextItemId, menuReqs>>

\* the accounts and the registration handlers
accountVars == <<users, regs>>

(* ------------------------- connection authenticator -------------------- *)

\* io.use middleware: the result of the handshake
\*   accept - next() was called without an error
\*   user   - socket.user afterwards (NoUser when never assigned)
io_use(b, token) ==
  IF b = "part_004"
  THEN IF ~token.present THEN [accept |-> TRUE, user |-> NoUser]
       ELSE IF ~token.verifies THEN [accept |-> TRUE, user |-> NoUser]
       ELSE [accept |-> TRUE, user |-> token.payload]
  ELSE IF ~token.present THEN [accept |-> FALSE, user |-> NoUser]
       ELSE IF ~token.verifies THEN [accept |-> FALSE, user |-> NoUser]
       ELSE IF token.payload.userId = 0 \/ ~token.payload.named
               \/ token.payload.role = "none"
            THEN [accept |-> FALSE, user |-> NoUser]
            ELSE [accept |-> TRUE, user |-> token.payload]

(* ------------------------------ audience router ------------------------ *)

\* JoinRooms with the staff test reduced to "has a role"
JoinRoomsAnyRole(b, user) ==
  (IF user.role # "none" THEN {AdminsRoom} ELSE {CustomersRoom})
  \cup (IF user.userId # 0 THEN {UserRoom(user.userId)} ELSE {})

\* io.on('connection'): the rooms the socket joins
JoinRooms(b, user) ==
  IF b = "part_004"
  THEN (IF user.role = "admin" \/ user.role = "staff"
        THEN {AdminsRoom} ELSE {CustomersRoom})
       \cup (IF user.userId # 0 THEN {UserRoom(user.userId)} ELSE {})
  ELSE (IF user.role = "admin" THEN {AdminsRoom} ELSE {CustomersRoom})
       \cup {UserRoom(user.userId)}

NewConn == [st |-> "new", user |-> NoUser, rooms |-> {}]

\* a client opens a socket with a handshake token
Connect(c, token) ==
  /\ conns[c].st = "new"
  /\ LET r == io_use(build, token) IN
       conns' = [conns EXCEPT ![c] =
                   IF r.accept
                   THEN [st |-> "open", user |-> r.user,
                         rooms |-> JoinRooms(build, r.user)]
                   ELSE [st |-> "rejected", user |-> NoUser, rooms |-> {}]]
  /\ UNCHANGED <<build, now, inbox, published, orders, order_items,
                 nextOrderId, reqs, upds, categories>>
  /\ UNCHANGED <<menuVars, client, pool, accountVars>>

\* socket.io removes a closing socket from all of its rooms; the socket and
\* what it had received are gone, and the slot stands for a fresh socket
Disconnect(c) ==
  /\ conns[c].st = "open"
  /\ conns' = [conns EXCEPT ![c] = NewConn]
  /\ inbox' = [inbox EXCEPT ![c] = <<>>]
  /\ UNCHANGED <<build, now, published, orders, order_items,
                 nextOrderId, reqs, upds, categories>>
  /\ UNCHANGED <<menuVars, client, pool, accountVars>>

\* io.to(room).emit(event, payload): the sockets currently in the room
Subscribers(cs, room) == {c \in ConnIds : cs[c].st = "open" /\ room \in cs[c].rooms}

Msg(op, room, event, payload) ==
  [op |-> op, room |-> room, event |-> event, payload |-> payload]

\* inbox after delivering the messages ms (a sequence) to their rooms
RECURSIVE Deliver(_, _, _)
Deliver(ib, cs, ms) ==
  IF ms = <<>> THEN ib
  ELSE Deliver([c \in ConnIds |->
                  IF c \in Subscribers(cs, Head(ms).room)
                  THEN Append(ib[c], Head(ms)) ELSE ib[c]],
               cs, Tail(ms))

\* the emits of a try block that completed when the one after the first
\* sent of them threw (sent = Len(ms): none threw)
Emitted(ms, sent) == SubSeq(ms, 1, IF sent < Len(ms) THEN sent ELSE Len(ms))

(* --------------------------- order transaction manager ----------------- *)

\* one submitted tuple of req.body.items; price in mills
\* (1000 = 1.00, a catalog price; 15 = 0.015, a price no catalog row holds
\* but the handler accepts).  half says that the quantity sent is
\* quantity + 0.5, a number that is no integer.
ItemTuples ==
  [item_id : {1}, quantity : 1..MaxQty, half : {FALSE}, price : {1000}]
  \cup {[item_id |-> 2, quantity |-> 1, half |-> FALSE, price |-> 15]}

\* tuples a well-behaved client does not send: quantity 0, -1 and 1.5, item
\* id 0 and -1, price 0
OddTuples ==
  {[item_id |-> 1, quantity |-> q, half |-> FALSE, price |-> 1000] : q \in {0, -1}}
  \cup {[item_id |-> 1, quantity |-> 1, half |-> TRUE, price |-> 1000]}
  \cup {[item_id |-> i, quantity |-> 1, half |-> FALSE, price |-> 1000] : i \in {0, -1}}
  \cup {[item_id |-> 1, quantity |-> 1, half |-> FALSE, price |-> 0]}

RECURSIVE SeqsUpTo(_, _)
SeqsUpTo(S, n) ==
  IF n = 0 THEN {<<>>}
  ELSE LET shorter == SeqsUpTo(S, n - 1) IN
         shorter \cup {Append(q, x) : q \in {t \in shorter : Len(t) = n - 1}, x \in S}

\* scheduled_at of a body: not sent, a string that is no date, or the
\* instant t of the clock
NoTime == [kind |-> "none", t |-> 0]
BadTime == [kind |-> "invalid", t |-> 0]
TimeAt(t) == [kind |-> "time", t |-> t]

\* a plain order: one unit of item 1 at 1.00, paid in cash, as soon as
\* possible.  isArray tells whether items is an array at all, total is a
\* total the client may send along (0 = not sent), status a status the
\* client may send along ("none" = not sent).
PlainBody ==
  [items |-> <<[item_id |-> 1, quantity |-> 1, half |-> FALSE, price |-> 1000]>>,
   isArray |-> TRUE, total |-> 0, payment_method |-> "cash",
   order_type |-> "asap", scheduled_at |-> NoTime, status |-> "none"]

\* the tuples of a list come by item id and then by quantity: the handler
\* treats the tuples alike wherever they stand, so one order of each
\* multiset of tuples is submitted
InCartOrder(items) ==
  \A i \in 1..(Len(items) - 1) :
    \/ items[i].item_id < items[i + 1].item_id
    \/ /\ items[i].item_id = items[i + 1].item_id
       /\ items[i].quantity <= items[i + 1].quantity

\* req.body of POST /api/orders: well-formed item lists, with or without a
\* total of the client's
OrderBodies ==
  {[PlainBody EXCEPT !.items = it, !.total = t] :
     it \in {q \in SeqsUpTo(ItemTuples, MaxItems) : InCartOrder(q)},
     t \in {0, 999000}}

\* a DECIMAL(.,2) column: the value in cents, rounded half away from zero
Decimal2(mills) ==
  IF mills >= 0 THEN (mills + 5) \div 10 ELSE 0 - ((5 - mills) \div 10)

\* item.price * item.quantity, in mills
Amount(item) ==
  item.price * item.quantity + (IF item.half THEN item.price \div 2 ELSE 0)

\* an INT column given a number: rounded half away from zero
IntColumn(item) == IF item.half THEN item.quantity + 1 ELSE item.quantity

\* items.reduce((sum, item) => sum + (item.price * item.quantity), 0)
RECURSIVE Total(_)
Total(items) ==
  IF items = <<>> THEN 0
  ELSE Total(SubSeq(items, 1, Len(items) - 1)) + Amount(items[Len(items)])

\* OrderRow with status and payment_status bound to req.body.status where
\* the client sent one
OrderRowFromBody(orderId, userId, orderNumber, total) ==
  LET sent == {reqs[q].bodyStatus :
                 q \in {p \in ReqIds : /\ reqs[p].pc = "insertOrder"
                                       /\ reqs[p].orderNumber = orderNumber
                                       /\ reqs[p].user.userId = userId}}
              \ {"none"}
      st == IF sent = {} THEN "pending" ELSE CHOOSE x \in sent : TRUE
  IN [order_id |-> orderId, user_id |-> userId, order_number |-> orderNumber,
      total_amount |-> Decimal2(total), status |-> st, payment_status |-> st]

\* INSERT INTO orders (...): the header row as stored; status and
\* payment_status are the constants of the statement (the column defaults in
\* part_004), never a value of the body
OrderRow(orderId, userId, orderNumber, total) ==
  [order_id |-> orderId, user_id |-> userId, order_number |-> orderNumber,
   total_amount |-> Decimal2(total), status |-> "pending",
   payment_status |-> "pending"]

\* items.map(item => [orderId, item.item_id, item.quantity, item.price,
\*                    item.price * item.quantity]) as stored; line stands
\* for the AUTO_INCREMENT order_item_id
OrderItemRows(orderId, items) ==
  {[order_id |-> orderId, line |-> i, item_id |-> items[i].item_id,
    quantity |-> IntColumn(items[i]), unit_price |-> Decimal2(items[i].price),
    subtotal |-> Decimal2(Amount(items[i]))]
     : i \in 1..Len(items)}

IdleReq ==
  [pc |-> "idle", user |-> NoUser, items |-> <<>>, isArray |-> TRUE,
   order_type |-> "asap", scheduled_at |-> NoTime, bodyStatus |-> "none",
   orderNumber |-> 0, total |-> 0, orderId |-> 0, txOrder |-> {},
   txItems |-> {}, status |-> 0, failedAt |-> "none"]

\* the response sent: the handler is finished with an HTTP status.  Of a
\* request refused for its role or failed in the database only the status,
\* the step that failed and the order id it had been given are kept; of any
\* other one also what was submitted.
Respond(req, code, at) ==
  IF code = 201 \/ at \in {"validation", "exception"}
  THEN [req EXCEPT !.pc = "done", !.status = code, !.failedAt = at]
  ELSE [IdleReq EXCEPT !.pc = "done", !.status = code, !.failedAt = at,
                       !.orderId = req.orderId]

\* Number.isInteger(item.item_id), Number.isInteger(item.quantity), a truthy
\* price and a quantity of at least 1
ValidItem(item) ==
  /\ ~item.half
  /\ item.price # 0
  /\ item.quantity >= 1

\* what the handler answers before any database work; 0 = it goes on.
\* t is the time of the submission.  The hardened revisions check the
\* schedule, the list, the payment method and each tuple, in that order;
\* part_004 checks nothing and throws in items.reduce when items is no
\* array, which Express answers with 500.
ValidateOrder(b, body, t) ==
  IF b = "part_004" THEN (IF body.isArray THEN 0 ELSE 500)
  ELSE IF /\ body.order_type = "scheduled"
          /\ \/ body.scheduled_at.kind # "time"
             \/ body.scheduled_at.t <= t
       THEN 400
  ELSE IF ~body.isArray \/ Len(body.items) = 0 THEN 400
  ELSE IF body.payment_method = "none" THEN 400
  ELSE IF \E i \in DOMAIN body.items : ~ValidItem(body.items[i]) THEN 400
  ELSE 0

\* POST /api/orders up to db.getConnection
PostOrder(r, user, body) ==
  /\ reqs[r].pc = "idle"
  /\ LET code == ValidateOrder(build, body, now)
         sent == [reqs[r] EXCEPT !.user = user, !.items = body.items,
                                 !.isArray = body.isArray,
                                 !.order_type = body.order_type,
                                 !.scheduled_at = body.scheduled_at,
                                 !.bodyStatus = body.status,
                                 !.orderNumber = now]
     IN reqs' = [reqs EXCEPT ![r] =
          IF user.role # "customer" THEN Respond(@, 403, "role")
          ELSE IF code = 400 THEN Respond(sent, 400, "validation")
          ELSE IF code # 0 THEN Respond(sent, code, "exception")
          ELSE [sent EXCEPT !.pc = "getConnection",
                            !.total = Total(body.items)]]
  /\ UNCHANGED <<build, now, conns, inbox, published, orders, order_items,
                 nextOrderId, upds, categories>>
  /\ UNCHANGED <<menuVars, client, pool, accountVars>>

\* no connection taken from the pool, none given back
NoLease == [acquired |-> 0, released |-> 0]

\* db.getConnection handing a connection of the pool to request r
Acquire(p, r) == [p EXCEPT ![r].acquired = @ + 1]

\* Release leaving the connection checked out
ReleaseSkipped(p, r) == p

\* connection.release()
Release(p, r) == [p EXCEPT ![r].released = @ + 1]

\* db.getConnection callback
GetConnection(r, ok) ==
  /\ reqs[r].pc = "getConnection"
  /\ reqs' = [reqs EXCEPT ![r] =
       IF ok THEN [@ EXCEPT !.pc = "beginTransaction"]
       ELSE Respond(@, 500, "getConnection")]
  /\ UNCHANGED <<build, now, conns, inbox, published, orders, order_items,
                 nextOrderId, upds, categories>>
  /\ pool' = IF ok THEN Acquire(pool, r) ELSE pool
  /\ UNCHANGED <<menuVars, client, accountVars>>

\* connection.beginTransaction callback
BeginTransaction(r, ok) ==
  /\ reqs[r].pc = "beginTransaction"
  /\ reqs' = [reqs EXCEPT ![r] =
       IF ok THEN [@ EXCEPT !.pc = "insertOrder"]
       ELSE Respond(@, 500, "beginTransaction")]
  /\ UNCHANGED <<build, now, conns, inbox, published, orders, order_items,
                 nextOrderId, upds, categories>>
  /\ pool' = IF ok THEN pool ELSE Release(pool, r)
  /\ UNCHANGED <<menuVars, client, accountVars>>

\* connection.rollback(...): the writes of the transaction are discarded
Rollback(req) == [req EXCEPT !.txOrder = {}, !.txItems = {}]

\* PendingNumbers without the lock the unique index puts on an uncommitted
\* row: no transaction sees a number another one has yet to commit
PendingNumbersUnlocked(r) == {}

\* order numbers written by transactions still open, other than r's
PendingNumbers(r) ==
  {o.order_number : o \in UNION {reqs[q].txOrder : q \in ReqIds \ {r}}}

\* InsertOrder with the header written through the pool (autocommit) rather
\* than through the transaction's connection
InsertOrderAutocommit(r, ok) ==
  /\ reqs[r].pc = "insertOrder"
  /\ LET dup == \E o \in orders : o.order_number = reqs[r].orderNumber IN
     IF ok /\ ~dup
     THEN /\ reqs' = [reqs EXCEPT ![r] =
               [@ EXCEPT !.pc = "insertItems", !.orderId = nextOrderId]]
          /\ orders' = orders \cup {OrderRow(nextOrderId, reqs[r].user.userId,
                                              reqs[r].orderNumber, reqs[r].total)}
          /\ nextOrderId' = nextOrderId + 1
          /\ pool' = pool
     ELSE /\ reqs' = [reqs EXCEPT ![r] = Respond(Rollback(@), 500, "insertOrder")]
          /\ pool' = Release(pool, r)
          /\ UNCHANGED <<nextOrderId, orders>>
  /\ UNCHANGED <<build, now, conns, inbox, published, order_items, upds,
                 categories>>
  /\ UNCHANGED <<menuVars, client, accountVars>>

\* INSERT INTO orders: the row is written inside the transaction; a
\* duplicate order_number (UNIQUE) among committed rows is an error, one
\* among uncommitted rows of another transaction makes the insert wait
InsertOrder(r, ok) ==
  /\ reqs[r].pc = "insertOrder"
  /\ LET dup == \E o \in orders : o.order_number = reqs[r].orderNumber IN
     IF ok /\ ~dup
     THEN /\ reqs[r].orderNumber \notin PendingNumbers(r)
          /\ reqs' = [reqs EXCEPT ![r] =
               [@ EXCEPT !.pc = "insertItems", !.orderId = nextOrderId,
                  !.txOrder = {OrderRow(nextOrderId, reqs[r].user.userId,
                                        reqs[r].orderNumber, reqs[r].total)}]]
          /\ nextOrderId' = nextOrderId + 1
          /\ pool' = pool
     ELSE /\ reqs' = [reqs EXCEPT ![r] = Respond(Rollback(@), 500, "insertOrder")]
          /\ pool' = Release(pool, r)
          /\ UNCHANGED nextOrderId
  /\ UNCHANGED <<build, now, conns, inbox, published, orders, order_items,
                 upds, categories>>
  /\ UNCHANGED <<menuVars, client, accountVars>>

\* payload of order:new
OrderNewPayload(req) ==
  [orderId |-> req.orderId, orderNumber |-> req.orderNumber,
   totalAmount |-> req.total, userId |-> req.user.userId]

OrderOp(r) == [kind |-> "order", id |-> r]

\* OrderNewMsgs with the emit copied from the catalog routes, which publish
\* to admins and to customers
OrderNewMsgsBroadcast(r, req) ==
  <<Msg(OrderOp(r), AdminsRoom, "order:new", OrderNewPayload(req)),
    Msg(OrderOp(r), CustomersRoom, "order:new", OrderNewPayload(req))>>

\* the messages emitted after a successful commit
OrderNewMsgs(r, req) ==
  <<Msg(OrderOp(r), AdminsRoom, "order:new", OrderNewPayload(req))>>

\* FOREIGN KEY (item_id) REFERENCES menu_items(item_id)
ItemsExist(items) ==
  \A i \in DOMAIN items : \E m \in menu_items : m.item_id = items[i].item_id

\* InsertItems with order:new emitted as soon as the line items are written,
\* before the commit
InsertItemsEmitting(r, ok) ==
  /\ reqs[r].pc = "insertItems"
  /\ reqs' = [reqs EXCEPT ![r] =
       IF ok /\ Len(reqs[r].items) > 0 /\ ItemsExist(reqs[r].items)
       THEN [@ EXCEPT !.pc = "commit",
                      !.txItems = OrderItemRows(reqs[r].orderId, reqs[r].items)]
       ELSE Respond(Rollback(@), 500, "insertItems")]
  /\ published' = IF ok /\ Len(reqs[r].items) > 0 /\ ItemsExist(reqs[r].items)
                  THEN published \o OrderNewMsgs(r, reqs[r]) ELSE published
  /\ UNCHANGED <<build, now, conns, inbox, orders, order_items,
                 nextOrderId, upds, categories>>
  /\ pool' = IF ok /\ Len(reqs[r].items) > 0 /\ ItemsExist(reqs[r].items)
             THEN pool ELSE Release(pool, r)
  /\ UNCHANGED <<menuVars, client, accountVars>>

\* INSERT INTO order_items (...) VALUES ?: an empty list is a syntax error,
\* an item id without a catalog row violates the foreign key
InsertItems(r, ok) ==
  /\ reqs[r].pc = "insertItems"
  /\ reqs' = [reqs EXCEPT ![r] =
       IF ok /\ Len(reqs[r].items) > 0 /\ ItemsExist(reqs[r].items)
       THEN [@ EXCEPT !.pc = "commit",
                      !.txItems = OrderItemRows(reqs[r].orderId, reqs[r].items)]
       ELSE Respond(Rollback(@), 500, "insertItems")]
  /\ UNCHANGED <<build, now, conns, inbox, published, orders, order_items,
                 nextOrderId, upds, categories>>
  /\ pool' = IF ok /\ Len(reqs[r].items) > 0 /\ ItemsExist(reqs[r].items)
             THEN pool ELSE Release(pool, r)
  /\ UNCHANGED <<menuVars, client, accountVars>>

\* Commit with the emit outside any try block: an emit that throws leaves the
\* request to the error handler, which answers 500
CommitUncaught(r, ok, sent) ==
  /\ reqs[r].pc = "commit"
  /\ IF ok
     THEN /\ orders' = orders \cup reqs[r].txOrder
          /\ order_items' = order_items \cup reqs[r].txItems
          /\ published' = published \o Emitted(OrderNewMsgs(r, reqs[r]), sent)
          /\ inbox' = Deliver(inbox, conns,
                              Emitted(OrderNewMsgs(r, reqs[r]), sent))
          /\ reqs' = [reqs EXCEPT ![r] =
                        IF sent = 0 THEN Respond(Rollback(@), 500, "emit")
                        ELSE Respond(Rollback(@), 201, "none")]
     ELSE /\ reqs' = [reqs EXCEPT ![r] = Respond(Rollback(@), 500, "commit")]
          /\ UNCHANGED <<orders, order_items, published, inbox>>
  /\ UNCHANGED <<build, now, conns, nextOrderId, upds, categories>>
  /\ pool' = Release(pool, r)
  /\ UNCHANGED <<menuVars, client, accountVars>>

\* connection.commit callback: on success the rows become visible, the
\* connection is released, order:new is emitted inside a try block and 201
\* is sent; sent = 0: the emit threw
Commit(r, ok, sent) ==
  /\ reqs[r].pc = "commit"
  /\ IF ok
     THEN /\ orders' = orders \cup reqs[r].txOrder
          /\ order_items' = order_items \cup reqs[r].txItems
          /\ published' = published \o Emitted(OrderNewMsgs(r, reqs[r]), sent)
          /\ inbox' = Deliver(inbox, conns,
                              Emitted(OrderNewMsgs(r, reqs[r]), sent))
          /\ reqs' = [reqs EXCEPT ![r] = Respond(Rollback(@), 201, "none")]
     ELSE /\ reqs' = [reqs EXCEPT ![r] = Respond(Rollback(@), 500, "commit")]
          /\ UNCHANGED <<orders, order_items, published, inbox>>
  /\ UNCHANGED <<build, now, conns, nextOrderId, upds, categories>>
  /\ pool' = Release(pool, r)
  /\ UNCHANGED <<menuVars, client, accountVars>>

\* time passes
Tick ==
  /\ now < MaxClock
  /\ now' = now + 1
  /\ UNCHANGED <<build, conns, inbox, published, orders, order_items,
                 nextOrderId, reqs, upds, categories>>
  /\ UNCHANGED <<menuVars, client, pool, accountVars>>

(* --------------------------- status transition manager ----------------- *)

\* allowedStatus, allowedPayment of the status route
AllowedStatus ==
  {"pending", "confirmed", "preparing", "ready", "completed", "cancelled"}
AllowedPayment == {"pending", "paid", "refunded"}

\* values a request body may carry: "none" = field not sent, "bogus" = a
\* value outside the enumeration
StatusInputs == AllowedStatus \cup {"none", "bogus"}
PaymentInputs == AllowedPayment \cup {"none", "bogus"}

IdleUpd == [pc |-> "idle", orderId |-> 0, code |-> 0, emitted |-> FALSE]

UpdOp(k) == [kind |-> "update", id |-> k]

\* ApplyUpdate with a fixed SET status = ?, payment_status = ? whose missing
\* parameter falls back to 'pending'
ApplyUpdateBothColumns(o, status, payment) ==
  [o EXCEPT !.status = IF status \in AllowedStatus THEN status ELSE "pending",
            !.payment_status = IF payment \in AllowedPayment THEN payment
                               ELSE "pending"]

\* UPDATE orders SET <supplied valid fields> WHERE order_id = id
ApplyUpdate(o, status, payment) ==
  [o EXCEPT !.status = IF status \in AllowedStatus THEN status ELSE @,
            !.payment_status = IF payment \in AllowedPayment THEN payment ELSE @]

\* PutOrderStatus without the test of result.affectedRows: an update that
\* matched no row goes on to read the row back
PutOrderStatusUnchecked(k, user, id, status, payment, ok) ==
  /\ upds[k].pc = "idle"
  /\ LET done(code) == [upds EXCEPT ![k] =
                          [@ EXCEPT !.pc = "done", !.code = code, !.orderId = id]]
     IN
     IF build # "part_004"
     THEN upds' = done(404) /\ UNCHANGED orders
     ELSE IF user.role # "admin" /\ user.role # "staff"
     THEN upds' = done(403) /\ UNCHANGED orders
     ELSE IF status \notin AllowedStatus /\ payment \notin AllowedPayment
     THEN upds' = done(400) /\ UNCHANGED orders
     ELSE IF ~ok
     THEN upds' = done(500) /\ UNCHANGED orders
     ELSE /\ orders' = {IF o.order_id = id THEN ApplyUpdate(o, status, payment)
                        ELSE o : o \in orders}
          /\ upds' = [upds EXCEPT ![k] = [@ EXCEPT !.pc = "fetch", !.orderId = id]]
  /\ UNCHANGED <<build, now, conns, inbox, published, order_items,
                 nextOrderId, reqs, categories>>
  /\ UNCHANGED <<menuVars, client, pool, accountVars>>

\* PUT /api/admin/orders/:id/status up to the callback of the UPDATE query.
\* Only part_004 registers the route; the other revisions answer with their
\* 404 handler.
PutOrderStatus(k, user, id, status, payment, ok) ==
  /\ upds[k].pc = "idle"
  /\ LET done(code) == [upds EXCEPT ![k] =
                          [@ EXCEPT !.pc = "done", !.code = code, !.orderId = id]]
     IN
     IF build # "part_004"
     THEN upds' = done(404) /\ UNCHANGED orders
     ELSE IF user.role # "admin" /\ user.role # "staff"
     THEN upds' = done(403) /\ UNCHANGED orders
     ELSE IF status \notin AllowedStatus /\ payment \notin AllowedPayment
     THEN upds' = done(400) /\ UNCHANGED orders
     ELSE IF ~ok
     THEN upds' = done(500) /\ UNCHANGED orders
     ELSE IF ~\E o \in orders : o.order_id = id
     THEN upds' = done(404) /\ UNCHANGED orders
     ELSE /\ orders' = {IF o.order_id = id THEN ApplyUpdate(o, status, payment)
                        ELSE o : o \in orders}
          /\ upds' = [upds EXCEPT ![k] = [@ EXCEPT !.pc = "fetch", !.orderId = id]]
  /\ UNCHANGED <<build, now, conns, inbox, published, order_items,
                 nextOrderId, reqs, categories>>
  /\ UNCHANGED <<menuVars, client, pool, accountVars>>

\* the messages emitted once the updated row o has been read back
OrderUpdateMsgs(k, o) ==
  <<Msg(UpdOp(k), AdminsRoom, "order:update", o),
    Msg(UpdOp(k), UserRoom(o.user_id), "order:update", o)>>

\* callback of the SELECT that reads the updated row back: emits
\* order:update and answers 200; when the read fails (or finds no row) it
\* answers 200 without emitting
FetchUpdated(k, ok) ==
  /\ upds[k].pc = "fetch"
  /\ LET rows == {o \in orders : o.order_id = upds[k].orderId} IN
     IF ~ok \/ rows = {}
     THEN /\ upds' = [upds EXCEPT ![k] = [@ EXCEPT !.pc = "done", !.code = 200]]
          /\ UNCHANGED <<published, inbox>>
     ELSE LET o == CHOOSE x \in rows : TRUE IN
          /\ published' = published \o OrderUpdateMsgs(k, o)
          /\ inbox' = Deliver(inbox, conns, OrderUpdateMsgs(k, o))
          /\ upds' = [upds EXCEPT ![k] =
                        [@ EXCEPT !.pc = "done", !.code = 200, !.emitted = TRUE]]
  /\ UNCHANGED <<build, now, conns, orders, order_items, nextOrderId, reqs,
                 categories>>
  /\ UNCHANGED <<menuVars, client, pool, accountVars>>

(* ------------------------------ category routes ------------------------ *)

\* may this user manage the catalog?  requireRole('admin') in the hardened
\* revisions, admin or staff in part_004
CanManage(b, user) ==
  IF b = "part_004" THEN user.role = "admin" \/ user.role = "staff"
  ELSE user.role = "admin"

CatOp(n) == [kind |-> "category", id |-> n]

\* POST /api/categories: insert, read back, emit category:add to admins.
\* Refused requests and failed inserts change nothing and emit nothing.
\* fetched: the read-back succeeds; when it fails, server.js and part_004
\* emit a payload built from the body, and part_003 (await inside the try
\* block) leaves the request to the error handler without emitting.
PostCategory(user, ok, fetched) ==
  /\ Len(published) < MaxPublished
  /\ Cardinality(categories) < MaxCategories
  /\ CanManage(build, user)
  /\ ok
  /\ LET cat == [category_id |-> Cardinality(categories) + 1, is_active |-> 1]
         m == Msg(CatOp(Len(published) + 1), AdminsRoom, "category:add", cat)
     IN /\ categories' = categories \cup {cat}
        /\ IF build = "part_003" /\ ~fetched
           THEN UNCHANGED <<published, inbox>>
           ELSE /\ published' = Append(published, m)
                /\ inbox' = Deliver(inbox, conns, <<m>>)
  /\ UNCHANGED <<build, now, conns, orders, order_items, nextOrderId, reqs,
                 upds>>
  /\ UNCHANGED <<menuVars, client, pool, accountVars>>

\* PUT /api/categories/:id with is_active supplied: update, read back, emit
\* category:update to admins.  When the read-back fails, server.js emits
\* the id alone, part_004 the id and the flag of the body, part_003 nothing.
PutCategory(user, id, active, ok, fetched) ==
  /\ Len(published) < MaxPublished
  /\ CanManage(build, user)
  /\ ok
  /\ \E c \in categories : c.category_id = id
  /\ LET cat == [category_id |-> id, is_active |-> active]
         payload == IF fetched \/ build = "part_004" THEN cat
                    ELSE [category_id |-> id]
         m == Msg(CatOp(Len(published) + 1), AdminsRoom, "category:update",
                  payload)
     IN /\ categories' = {IF c.category_id = id THEN cat ELSE c : c \in categories}
        /\ IF build = "part_003" /\ ~fetched
           THEN UNCHANGED <<published, inbox>>
           ELSE /\ published' = Append(published, m)
                /\ inbox' = Deliver(inbox, conns, <<m>>)
  /\ UNCHANGED <<build, now, conns, orders, order_items, nextOrderId, reqs,
                 upds>>
  /\ UNCHANGED <<menuVars, client, pool, accountVars>>

(* ------------------------------ menu routes ---------------------------- *)

\* the catalog items present from the start (the sample rows of the schema),
\* which the submitted tuples refer to
SeededItems == {1, 2}

\* a row of menu_items
MenuRow(id, available) == [item_id |-> id, is_available |-> available]

IdleMenuReq == [pc |-> "idle", kind |-> "none", itemId |-> 0, code |-> 0]

\* the response of a menu route
MenuRespond(m, kind, id, code) ==
  [menuReqs EXCEPT ![m] = [pc |-> "done", kind |-> kind, itemId |-> id,
                           code |-> code]]

MenuOp(m) == [kind |-> "menu", id |-> m]

\* MenuMsgs with the emit to the customers room left out
MenuMsgsStaffOnly(m, event, payload) ==
  <<Msg(MenuOp(m), AdminsRoom, event, payload)>>

\* io.to('admins').emit(event, payload); io.to('customers').emit(event, payload)
MenuMsgs(m, event, payload) ==
  <<Msg(MenuOp(m), AdminsRoom, event, payload),
    Msg(MenuOp(m), CustomersRoom, event, payload)>>

\* rows of order_items written by transactions still open
PendingItems == UNION {reqs[q].txItems : q \in ReqIds}

\* POST /api/menu: validate, insert, read the row back, emit menu:item:add
\* to admins and customers, answer 201.  valid: the body passes validation;
\* ok: the insert succeeds; fetched: the read-back returns the row.
\* part_004 does not insert is_available (column default 1).  A failed
\* read-back makes server.js and part_004 emit a payload built from the
\* body, and part_003 answer 500 without emitting.
PostMenu(m, user, available, valid, ok, fetched, sent) ==
  /\ menuReqs[m].pc = "idle"
  /\ Len(published) < MaxPublished
  /\ IF ~CanManage(build, user)
     THEN /\ menuReqs' = MenuRespond(m, "add", 0, 403)
          /\ UNCHANGED <<menu_items, nextItemId, published, inbox>>
     ELSE IF ~valid
     THEN /\ menuReqs' = MenuRespond(m, "add", 0, 400)
          /\ UNCHANGED <<menu_items, nextItemId, published, inbox>>
     ELSE IF ~ok
     THEN /\ menuReqs' = MenuRespond(m, "add", 0, 500)
          /\ UNCHANGED <<menu_items, nextItemId, published, inbox>>
     ELSE LET row == MenuRow(nextItemId,
                             IF build = "part_004" THEN 1 ELSE available)
              newItem == IF fetched THEN row ELSE MenuRow(nextItemId, 1)
              ms == Emitted(MenuMsgs(m, "menu:item:add", newItem), sent)
          IN /\ menu_items' = menu_items \cup {row}
             /\ nextItemId' = nextItemId + 1
             /\ IF build = "part_003" /\ ~fetched
                THEN /\ menuReqs' = MenuRespond(m, "add", nextItemId, 500)
                     /\ UNCHANGED <<published, inbox>>
                ELSE /\ menuReqs' = MenuRespond(m, "add", nextItemId, 201)
                     /\ published' = published \o ms
                     /\ inbox' = Deliver(inbox, conns, ms)
  /\ UNCHANGED <<build, now, conns, orders, order_items, nextOrderId, reqs,
                 upds, categories>>
  /\ UNCHANGED <<client, pool, accountVars>>

\* PUT /api/menu/:id: validate, update, read the row back, emit
\* menu:item:update to admins and customers, answer 200.  The hardened
\* revisions answer 404 when no row matched; part_004 does not look at
\* affectedRows and emits for an id without a row.
PutMenu(m, user, id, available, valid, ok, fetched, sent) ==
  /\ menuReqs[m].pc = "idle"
  /\ Len(published) < MaxPublished
  /\ LET exists == \E row \in menu_items : row.item_id = id
         updated == IF fetched /\ exists THEN MenuRow(id, available)
                    ELSE [item_id |-> id, is_available |-> available]
         ms == Emitted(MenuMsgs(m, "menu:item:update", updated), sent)
     IN
     IF ~CanManage(build, user)
     THEN /\ menuReqs' = MenuRespond(m, "update", id, 403)
          /\ UNCHANGED <<menu_items, published, inbox>>
     ELSE IF ~valid
     THEN /\ menuReqs' = MenuRespond(m, "update", id, 400)
          /\ UNCHANGED <<menu_items, published, inbox>>
     ELSE IF ~ok
     THEN /\ menuReqs' = MenuRespond(m, "update", id, 500)
          /\ UNCHANGED <<menu_items, published, inbox>>
     ELSE IF ~exists /\ build # "part_004"
     THEN /\ menuReqs' = MenuRespond(m, "update", id, 404)
          /\ UNCHANGED <<menu_items, published, inbox>>
     ELSE /\ menu_items' = {IF row.item_id = id THEN MenuRow(id, available)
                            ELSE row : row \in menu_items}
          /\ IF build = "part_003" /\ ~fetched
             THEN /\ menuReqs' = MenuRespond(m, "update", id, 500)
                  /\ UNCHANGED <<published, inbox>>
             ELSE /\ menuReqs' = MenuRespond(m, "update", id, 200)
                  /\ published' = published \o ms
                  /\ inbox' = Deliver(inbox, conns, ms)
  /\ UNCHANGED <<build, now, conns, orders, order_items, nextOrderId, reqs,
                 upds, categories, nextItemId>>
  /\ UNCHANGED <<client, pool, accountVars>>

\* DELETE /api/menu/:id: delete, emit menu:item:delete to admins and
\* customers, answer 200; 404 when no row matched.  order_items.item_id
\* references menu_items ON DELETE RESTRICT: in server.js and part_004 the
\* delete of an ordered item fails; part_003 first deletes the line items
\* that refer to the item, in one transaction with the delete of the item.
\* A line item written by a transaction still open makes the delete wait.
DeleteMenu(m, user, id, ok, sent) ==
  /\ menuReqs[m].pc = "idle"
  /\ Len(published) < MaxPublished
  /\ \A row \in PendingItems : row.item_id # id
  /\ LET exists == \E row \in menu_items : row.item_id = id
         ordered == \E row \in order_items : row.item_id = id
         ms == Emitted(MenuMsgs(m, "menu:item:delete", [item_id |-> id]), sent)
     IN
     IF ~CanManage(build, user)
     THEN /\ menuReqs' = MenuRespond(m, "delete", id, 403)
          /\ UNCHANGED <<menu_items, order_items, published, inbox>>
     ELSE IF ~ok \/ (ordered /\ exists /\ build # "part_003")
     THEN /\ menuReqs' = MenuRespond(m, "delete", id, 500)
          /\ UNCHANGED <<menu_items, order_items, published, inbox>>
     ELSE IF ~exists
     THEN /\ menuReqs' = MenuRespond(m, "delete", id, 404)
          /\ UNCHANGED <<menu_items, order_items, published, inbox>>
     ELSE /\ menu_items' = {row \in menu_items : row.item_id # id}
          /\ order_items' = {row \in order_items : row.item_id # id}
          /\ menuReqs' = MenuRespond(m, "delete", id, 200)
          /\ published' = published \o ms
          /\ inbox' = Deliver(inbox, conns, ms)
  /\ UNCHANGED <<build, now, conns, orders, nextOrderId, reqs, upds,
                 categories, nextItemId>>
  /\ UNCHANGED <<client, pool, accountVars>>

(* ------------------------------ cart activity -------------------------- *)

CartOp(n) == [kind |-> "cart", id |-> n]

\* CartAdd relaying with io.emit, to every connected socket
CartAddToAll(c, valid) ==
  /\ conns[c].st = "open"
  /\ Len(published) < MaxPublished
  /\ build = "part_004" \/ valid
  /\ LET activity == [userId |-> conns[c].user.userId, valid |-> valid]
         ms == <<Msg(CartOp(Len(published) + 1), AdminsRoom, "cart:activity",
                     activity),
                 Msg(CartOp(Len(published) + 1), CustomersRoom, "cart:activity",
                     activity)>>
     IN /\ published' = published \o ms
        /\ inbox' = Deliver(inbox, conns, ms)
  /\ UNCHANGED <<build, now, conns, orders, order_items, nextOrderId, reqs,
                 upds, categories>>
  /\ UNCHANGED <<menuVars, client, pool, accountVars>>

\* socket.on('cart:add'): relayed to admins as cart:activity.  valid tells
\* whether the payload is an object whose item has an integer item_id; the
\* hardened revisions drop anything else, part_004 relays whatever it gets.
CartAdd(c, valid) ==
  /\ conns[c].st = "open"
  /\ Len(published) < MaxPublished
  /\ build = "part_004" \/ valid
  /\ LET activity == [userId |-> conns[c].user.userId, valid |-> valid]
         m == Msg(CartOp(Len(published) + 1), AdminsRoom, "cart:activity", activity)
     IN /\ published' = Append(published, m)
        /\ inbox' = Deliver(inbox, conns, <<m>>)
  /\ UNCHANGED <<build, now, conns, orders, order_items, nextOrderId, reqs,
                 upds, categories>>
  /\ UNCHANGED <<menuVars, client, pool, accountVars>>

(* ------------------------------ client reconciler ---------------------- *)

\* Orders.js handleOrderUpdate: the cached orders after an order:update
handleOrderUpdate(prev, update) ==
  [j \in DOMAIN prev |->
     IF prev[j].order_id = update.order_id
     THEN [prev[j] EXCEPT !.status = update.status,
                          !.payment_status = update.payment_status]
     ELSE prev[j]]

\* A JavaScript object is a record; a field the object lacks is undefined.
Has(obj, f) == f \in DOMAIN obj

\* a[f] === b[f]
SameField(a, b, f) ==
  IF Has(a, f) /\ Has(b, f) THEN a[f] = b[f] ELSE ~Has(a, f) /\ ~Has(b, f)

\* !obj[f]: the field is undefined or 0
Falsy(obj, f) == ~Has(obj, f) \/ obj[f] = 0

\* { ...a, ...b }
Spread(a, b) ==
  [f \in DOMAIN a \cup DOMAIN b |-> IF f \in DOMAIN b THEN b[f] ELSE a[f]]

\* prev.some((it) => it[f] === obj[f])
Some(prev, obj, f) == \E j \in DOMAIN prev : SameField(prev[j], obj, f)

\* prev.filter((it) => it[f] !== obj[f])
Without(prev, obj, f) ==
  LET keep(it) == ~SameField(it, obj, f) IN SelectSeq(prev, keep)

\* prev.map((it) => (it[f] === obj[f] ? obj : it))
Replaced(prev, obj, f) ==
  [j \in DOMAIN prev |-> IF SameField(prev[j], obj, f) THEN obj ELSE prev[j]]

\* prev.map((it) => (it[f] === obj[f] ? { ...it, ...obj } : it))
Merged(prev, obj, f) ==
  [j \in DOMAIN prev |->
     IF SameField(prev[j], obj, f) THEN Spread(prev[j], obj) ELSE prev[j]]

\* handleMenuItemUpdate with an update for an item that is not cached
\* appended to the list
handleMenuItemUpsert(prev, updated) ==
  IF Falsy(updated, "item_id") THEN prev
  ELSE IF Has(updated, "is_active") /\ updated.is_active = 0
  THEN Without(prev, updated, "item_id")
  ELSE IF Some(prev, updated, "item_id") THEN Merged(prev, updated, "item_id")
  ELSE Append(prev, updated)

\* Menu.js handleMenuItemUpdate
handleMenuItemUpdate(prev, updated) ==
  IF Falsy(updated, "item_id") THEN prev
  ELSE IF Has(updated, "is_active") /\ updated.is_active = 0
  THEN Without(prev, updated, "item_id")
  ELSE Merged(prev, updated, "item_id")

\* Menu.js handleMenuItemAdd
handleMenuItemAdd(prev, added) ==
  IF Falsy(added, "item_id") THEN prev
  ELSE IF Has(added, "is_active") /\ added.is_active = 0 THEN prev
  ELSE IF Some(prev, added, "item_id") THEN Merged(prev, added, "item_id")
  ELSE Append(prev, added)

\* handleMenuItemDelete dropping the oldest entry instead of the one named
handleMenuItemDeleteFirst(prev, deleted) ==
  IF Falsy(deleted, "item_id") THEN prev
  ELSE IF prev = <<>> THEN prev ELSE Tail(prev)

\* Menu.js handleMenuItemDelete
handleMenuItemDelete(prev, deleted) ==
  IF Falsy(deleted, "item_id") THEN prev
  ELSE Without(prev, deleted, "item_id")

\* the listeners a component registers on the socket, as a function of the
\* cached collection it sets: the collection after the event
\*   Menu            menuItems   menu:item:add / update / delete
\*   Orders          orders      order:update
\*   AdminDashboard  menuItems   menu:item:add / update / delete
\*                   orders      order:new / order:update
\*                   categories  category:add / category:update
Reconcile(comp, coll, prev, event, payload) ==
  IF comp = "Menu" /\ coll = "menuItems"
  THEN IF event = "menu:item:add" THEN handleMenuItemAdd(prev, payload)
       ELSE IF event = "menu:item:update" THEN handleMenuItemUpdate(prev, payload)
       ELSE IF event = "menu:item:delete" THEN handleMenuItemDelete(prev, payload)
       ELSE prev
  ELSE IF comp = "Orders" /\ coll = "orders"
  THEN IF event = "order:update" THEN handleOrderUpdate(prev, payload) ELSE prev
  ELSE IF comp = "AdminDashboard" /\ coll = "menuItems"
  THEN IF event = "menu:item:add"
       THEN (IF Some(prev, payload, "item_id") THEN prev ELSE Append(prev, payload))
       ELSE IF event = "menu:item:update" THEN Replaced(prev, payload, "item_id")
       ELSE IF event = "menu:item:delete" THEN Without(prev, payload, "item_id")
       ELSE prev
  ELSE IF comp = "AdminDashboard" /\ coll = "orders"
  THEN IF event = "order:new" THEN <<payload>> \o prev
       ELSE IF event = "order:update" THEN Replaced(prev, payload, "order_id")
       ELSE prev
  ELSE IF comp = "AdminDashboard" /\ coll = "categories"
  THEN IF event = "category:add" THEN Append(prev, payload)
       ELSE IF event = "category:update" THEN Replaced(prev, payload, "category_id")
       ELSE prev
  ELSE prev

\* the collections each component caches
Collections ==
  {<<"Menu", "menuItems">>, <<"Orders", "orders">>,
   <<"AdminDashboard", "menuItems">>, <<"AdminDashboard", "orders">>,
   <<"AdminDashboard", "categories">>}

\* the field that carries the id of an entity of the collection in the rows
\* the fetch routes return
IdField(coll) ==
  IF coll = "menuItems" THEN "item_id"
  ELSE IF coll = "orders" THEN "order_id" ELSE "category_id"

\* the rows a fetch of the collection can return for entity id
RowsOf(coll, id) ==
  IF coll = "menuItems" THEN {MenuRow(id, a) : a \in {0, 1}}
  ELSE IF coll = "orders"
  THEN {ApplyUpdate(OrderRow(id, 1, id, 1000), st, "none") :
          st \in {"none", "confirmed"}}
  ELSE {[category_id |-> id, is_active |-> a] : a \in {0, 1}}

\* the payloads the server sends with an event about entity id: the row, the
\* fallback objects built when a read-back fails, { item_id } of a delete,
\* the summary of order:new; and an item flagged is_active: 0
PayloadsOf(event, id) ==
  IF event \in {"menu:item:add", "menu:item:update"}
  THEN RowsOf("menuItems", id)
       \cup {[item_id |-> id, is_available |-> 1, is_active |-> 0]}
  ELSE IF event = "menu:item:delete" THEN {[item_id |-> id]}
  ELSE IF event = "order:new"
  THEN {[orderId |-> id, orderNumber |-> id, totalAmount |-> 1000, userId |-> 1]}
  ELSE IF event = "order:update" THEN RowsOf("orders", id)
  ELSE IF event = "category:add" THEN RowsOf("categories", id)
  ELSE RowsOf("categories", id) \cup {[category_id |-> id]}

AddEvents == {"menu:item:add", "order:new", "category:add"}
UpdateEvents == {"menu:item:update", "order:update", "category:update"}
Events == AddEvents \cup UpdateEvents \cup {"menu:item:delete"}

\* entity ids the client may hear of
EntityIds == 1..MaxCache

\* fetch responses: up to MaxCache rows, no id twice (the id is the primary
\* key of the table)
RECURSIVE FetchedLists(_, _)
FetchedLists(coll, n) ==
  IF n = 0 THEN {<<>>}
  ELSE LET shorter == FetchedLists(coll, n - 1) IN
       shorter \cup
       {Append(q, row) :
          q \in {t \in shorter : Len(t) = n - 1},
          row \in UNION {RowsOf(coll, id) : id \in EntityIds}}

NoIdTwice(coll, list) ==
  \A i, j \in DOMAIN list :
    i # j => ~SameField(list[i], list[j], IdField(coll))

\* no component mounted.  last is the event handled last and the id of its
\* entity, before the cache as that event found it.
NoEvent == [event |-> "none", id |-> 0]

NoClient ==
  [comp |-> "none", coll |-> "none", cache |-> <<>>, conn |-> 0,
   cursor |-> 0, fetch |-> "idle", snapshot |-> <<>>, last |-> NoEvent,
   before |-> <<>>, since |-> 0]

\* a component is mounted and the response of its fetch is applied:
\* setMenuItems(menuRes.data), setOrders(ordersList), setCategories(catRes.data)
Load(comp, coll, rows) ==
  /\ client.comp = "none"
  /\ NoIdTwice(coll, rows)
  /\ client' = [NoClient EXCEPT !.comp = comp, !.coll = coll, !.cache = rows,
                                !.fetch = "done"]
  /\ UNCHANGED <<build, now, conns, inbox, published, orders, order_items,
                 nextOrderId, reqs, upds, categories>>
  /\ UNCHANGED <<menuVars, pool, accountVars>>

\* the id of the entity a payload is about
PayloadId(payload) ==
  IF Has(payload, "item_id") THEN payload.item_id
  ELSE IF Has(payload, "order_id") THEN payload.order_id
  ELSE IF Has(payload, "orderId") THEN payload.orderId
  ELSE IF Has(payload, "category_id") THEN payload.category_id
  ELSE 0

\* the socket hands an event to the listeners of the mounted component
Receive(event, payload) ==
  /\ client.comp # "none"
  /\ Len(client.cache) <= MaxCache
  /\ client' = [client EXCEPT
                  !.cache = Reconcile(client.comp, client.coll, client.cache,
                                      event, payload),
                  !.last = [event |-> event, id |-> PayloadId(payload)],
                  !.before = client.cache]
  /\ UNCHANGED <<build, now, conns, inbox, published, orders, order_items,
                 nextOrderId, reqs, upds, categories>>
  /\ UNCHANGED <<menuVars, pool, accountVars>>

(* ------------------------------ client fetch -------------------------- *)
\* the result set of GET /api/menu as a list: the rows with is_available =
\* TRUE, here in the order of their ids
RECURSIVE Listed(_)
Listed(rows) ==
  IF rows = {} THEN <<>>
  ELSE LET first == CHOOSE r \in rows : \A q \in rows : r.item_id <= q.item_id
       IN <<first>> \o Listed(rows \ {first})

\* filterActiveItems: drops the items flagged is_active 0
filterActiveItems(items) ==
  LET Active(item) == ~Has(item, "is_active") \/ item.is_active = 1
  IN SelectSeq(items, Active)

\* useEffect of a mounted component: the fetch is issued and the listeners
\* are registered on the shared socket c; since is the number of messages
\* the socket had been sent before, which no listener saw
Mount(comp, c) ==
  /\ client.comp = "none"
  /\ conns[c].st = "open"
  /\ client' = [NoClient EXCEPT !.comp = comp, !.coll = "menuItems",
                                !.conn = c, !.cursor = Len(inbox[c]),
                                !.since = Len(inbox[c]), !.fetch = "pending"]
  /\ UNCHANGED <<build, now, conns, inbox, published, orders, order_items,
                 nextOrderId, reqs, upds, categories>>
  /\ UNCHANGED <<menuVars, pool, accountVars>>

\* GET /api/menu: the server reads the available rows and sends them
ServeFetch ==
  /\ client.fetch = "pending"
  /\ client' = [client EXCEPT
                  !.fetch = "served",
                  !.snapshot = Listed({row \in menu_items :
                                         row.is_available = 1})]
  /\ UNCHANGED <<build, now, conns, inbox, published, orders, order_items,
                 nextOrderId, reqs, upds, categories>>
  /\ UNCHANGED <<menuVars, pool, accountVars>>

\* the next message sent to the client's socket reaches its listener
OnMessage ==
  /\ client.comp # "none"
  /\ client.cursor < Len(inbox[client.conn])
  /\ LET m == inbox[client.conn][client.cursor + 1] IN
     client' = [client EXCEPT
                  !.cache = Reconcile(client.comp, client.coll, client.cache,
                                      m.event, m.payload),
                  !.cursor = @ + 1,
                  !.last = [event |-> m.event, id |-> PayloadId(m.payload)],
                  !.before = client.cache]
  /\ UNCHANGED <<build, now, conns, inbox, published, orders, order_items,
                 nextOrderId, reqs, upds, categories>>
  /\ UNCHANGED <<menuVars, pool, accountVars>>

\* the fetch resolves: setMenuItems(fetched) replaces the cache
ApplyFetch ==
  /\ client.fetch = "served"
  /\ client' = [client EXCEPT
                  !.fetch = "done",
                  !.cache = IF client.comp = "Menu"
                            THEN filterActiveItems(client.snapshot)
                            ELSE client.snapshot]
  /\ UNCHANGED <<build, now, conns, inbox, published, orders, order_items,
                 nextOrderId, reqs, upds, categories>>
  /\ UNCHANGED <<menuVars, pool, accountVars>>

(* ------------------------------ registration --------------------------- *)
\* registration requests in flight at once
RegIds == 1..NumRegs

\* the rows the schema script inserts into users
SeededUsers == {[user_id |-> u, role |-> RoleOf(u)] : u \in UserIds}

\* if (adminCount >= 2): the number of admin accounts allowed
AdminLimit == 2

\* body.role as a client may send it; "none" = no role in the body
RoleInputs == {"none", "customer", "admin", "staff"}

IdleReg == [pc |-> "idle", role |-> "none", code |-> 0]

RegRespond(code) == [pc |-> "done", role |-> "none", code |-> code]

\* SELECT COUNT(*) AS admin_count FROM users WHERE role = 'admin'
AdminCount(rows) == Cardinality({u \in rows : u.role = "admin"})

\* the role that will be inserted: server.js turns everything but 'admin'
\* into 'customer', part_004 keeps customer, admin and staff
FinalRole(b, role) ==
  IF b = "part_004"
  THEN (IF role \in {"customer", "admin", "staff"} THEN role ELSE "customer")
  ELSE (IF role = "admin" THEN "admin" ELSE "customer")

\* POST /api/auth/register up to its first query.  valid: username, email
\* and password pass the validators.  server.js answers 400 to an invalid
\* body or a role other than customer and admin and counts the admins before
\* an admin registration; part_004 validates nothing, bcrypt.hash throws
\* without a password; part_003 has no such route.
PostRegister(g, role, valid) ==
  /\ regs[g].pc = "idle"
  /\ regs' = [regs EXCEPT ![g] =
       IF build = "part_003" THEN RegRespond(404)
       ELSE IF build = "part_004"
       THEN (IF valid THEN [@ EXCEPT !.pc = "insert",
                                    !.role = FinalRole(build, role)]
             ELSE RegRespond(500))
       ELSE IF ~valid \/ role = "staff" THEN RegRespond(400)
       ELSE [@ EXCEPT !.pc = IF FinalRole(build, role) = "admin"
                             THEN "count" ELSE "insert",
                      !.role = FinalRole(build, role)]]
  /\ UNCHANGED <<build, now, conns, inbox, published, orders, order_items,
                 nextOrderId, reqs, upds, categories, users>>
  /\ UNCHANGED <<menuVars, client, pool>>

\* callback of the admin count query: 500 on a database error, 403 once
\* two admins exist, otherwise executeRegistration
CountAdmins(g, ok) ==
  /\ regs[g].pc = "count"
  /\ regs' = [regs EXCEPT ![g] =
       IF ~ok THEN RegRespond(500)
       ELSE IF AdminCount(users) >= AdminLimit THEN RegRespond(403)
       ELSE [@ EXCEPT !.pc = "insert"]]
  /\ UNCHANGED <<build, now, conns, inbox, published, orders, order_items,
                 nextOrderId, reqs, upds, categories, users>>
  /\ UNCHANGED <<menuVars, client, pool>>

\* callback of INSERT INTO users, after bcrypt.hash: ~ok is ER_DUP_ENTRY
\* (409 in server.js, 400 in part_004), otherwise the row is written and
\* 201 is sent
InsertUser(g, ok) ==
  /\ regs[g].pc = "insert"
  /\ IF ok
     THEN /\ users' = users \cup {[user_id |-> Cardinality(users) + 1,
                                   role |-> regs[g].role]}
          /\ regs' = [regs EXCEPT ![g] = RegRespond(201)]
     ELSE /\ regs' = [regs EXCEPT ![g] =
                        RegRespond(IF build = "part_004" THEN 400 ELSE 409)]
          /\ UNCHANGED users
  /\ UNCHANGED <<build, now, conns, inbox, published, orders, order_items,
                 nextOrderId, reqs, upds, categories>>
  /\ UNCHANGED <<menuVars, client, pool>>

(* ------------------------------ specifications ------------------------- *)

Init ==
  /\ build \in Builds
  /\ now = 1
  /\ conns = [c \in ConnIds |-> NewConn]
  /\ inbox = [c \in ConnIds |-> <<>>]
  /\ published = <<>>
  /\ orders = {}
  /\ order_items = {}
  /\ nextOrderId = 1
  /\ reqs = [r \in ReqIds |-> IdleReq]
  /\ upds = [k \in UpdIds |-> IdleUpd]
  /\ categories = {}
  /\ menu_items = {MenuRow(i, 1) : i \in SeededItems}
  /\ nextItemId = Cardinality(SeededItems) + 1
  /\ menuReqs = [m \in MenuReqIds |-> IdleMenuReq]
  /\ client = NoClient
  /\ pool = [r \in ReqIds |-> NoLease]
  /\ users = SeededUsers
  /\ regs = [g \in RegIds |-> IdleReg]

\* order creation under concurrency: request 1 is posted by customer 1, a
\* staff member or an admin with any body, the requests racing with it are
\* plain orders of customer 2 and
\* are numbered in the order they arrive; every database outcome; the clock
\* advances while a request is still to arrive; sockets are left out
NextOrder ==
  \/ \E body \in OrderBodies, u \in UserIds \ {2} :
        PostOrder(1, LoginPayload(u), body)
  \/ \E r \in ReqIds \ {1} :
        /\ reqs[r - 1].pc # "idle"
        /\ PostOrder(r, LoginPayload(2), PlainBody)
  \/ \E r \in ReqIds, ok \in BOOLEAN : GetConnection(r, ok)
  \/ \E r \in ReqIds, ok \in BOOLEAN : BeginTransaction(r, ok)
  \/ \E r \in ReqIds, ok \in BOOLEAN : InsertOrder(r, ok)
  \/ \E r \in ReqIds, ok \in BOOLEAN : InsertItems(r, ok)
  \/ \E r \in ReqIds, ok \in BOOLEAN : Commit(r, ok, 2)
  \/ (\E r \in ReqIds : reqs[r].pc = "idle") /\ Tick

SpecOrder == Init /\ [][NextOrder]_vars

\* one order (request 1, the plain order) run through the transaction, the
\* database answering with one of outcomes at each step
OneOrder(posters, outcomes) ==
  \/ \E u \in posters : PostOrder(1, LoginPayload(u), PlainBody)
  \/ \E ok \in outcomes : GetConnection(1, ok)
  \/ \E ok \in outcomes : BeginTransaction(1, ok)
  \/ \E ok \in outcomes : InsertOrder(1, ok)
  \/ \E ok \in outcomes : InsertItems(1, ok)
  \/ \E ok \in outcomes : Commit(1, ok, 2)

\* socket 1 may present any token, the other sockets the login token of a
\* customer or of an admin
TokensFor(c) ==
  IF c = 1 THEN Tokens ELSE {GoodToken(LoginPayload(u)) : u \in {1, 4}}

\* the connection authenticator and the audience router on their own:
\* handshakes with every kind of token, disconnects, and cart activity as
\* the traffic
NextAuth ==
  \/ \E c \in ConnIds : \E t \in TokensFor(c) : Connect(c, t)
  \/ \E c \in ConnIds : Disconnect(c)
  \/ \E c \in ConnIds, valid \in BOOLEAN : CartAdd(c, valid)

SpecAuth == Init /\ [][NextAuth]_vars

\* socket 1 with no token or the login token of a customer, a staff member
\* or an admin; socket 2 belongs to customer 1 or to an admin, any further
\* socket to customer 2
LoginTokensFor(c) ==
  IF c = 1 THEN {NoToken} \cup {GoodToken(LoginPayload(u)) : u \in {1, 3, 4}}
  ELSE {GoodToken(LoginPayload(u)) : u \in (IF c = 2 THEN {1, 4} ELSE {2})}

\* publishing to the staff room: sockets come and go while orders are
\* placed, categories are added and updated and sockets 1 and 2 fill carts
NextConn ==
  \/ \E c \in ConnIds : \E t \in LoginTokensFor(c) : Connect(c, t)
  \/ \E c \in ConnIds : Disconnect(c)
  \/ OneOrder({1}, {TRUE})
  \/ \E u \in UserIds : PostCategory(LoginPayload(u), TRUE, TRUE)
  \/ \E u \in UserIds : PutCategory(LoginPayload(u), 1, 0, TRUE, TRUE)
  \/ \E c \in ConnIds \cap {1, 2}, valid \in BOOLEAN : CartAdd(c, valid)

SpecConn == Init /\ [][NextConn]_vars

\* the sockets of the status scenario: socket 1 belongs to customer 1,
\* socket 2 to customer 1 or 2, socket 3 to a staff member or an admin, any
\* further socket to customer 2
StatusTokensFor(c) ==
  {GoodToken(LoginPayload(u)) :
     u \in (IF c = 1 THEN {1} ELSE IF c = 2 THEN {1, 2}
            ELSE IF c = 3 THEN {3, 4} ELSE {2})}

\* orders and their status updates reaching the sockets: customer 1 places
\* the plain order; staff member 3 and customer 2 send status updates for
\* order 1 and for the unknown order 2
NextStatus ==
  \/ \E c \in ConnIds : \E t \in StatusTokensFor(c) : Connect(c, t)
  \/ \E c \in ConnIds : Disconnect(c)
  \/ OneOrder({1}, BOOLEAN)
  \/ \E k \in UpdIds, u \in {2, 3}, id \in {1, 2},
        status \in {"none", "confirmed", "bogus"}, payment \in {"none", "paid"},
        ok \in BOOLEAN :
        PutOrderStatus(k, LoginPayload(u), id, status, payment, ok)
  \/ \E k \in UpdIds, ok \in BOOLEAN : FetchUpdated(k, ok)

SpecStatus == Init /\ [][NextStatus]_vars

\* the life of one order: customer 1 places the plain order and staff member
\* 3 sends every possible status update for it
NextTransitions ==
  \/ OneOrder({1}, {TRUE})
  \/ \E k \in UpdIds, status \in StatusInputs, payment \in PaymentInputs :
        PutOrderStatus(k, LoginPayload(3), 1, status, payment, TRUE)
  \/ \E k \in UpdIds, ok \in BOOLEAN : FetchUpdated(k, ok)

SpecTransitions == Init /\ [][NextTransitions]_vars

\* the sockets of the catalog scenario: socket 1 belongs to customer 1,
\* socket 2 to admin 4, any further socket to staff member 3
CatalogTokensFor(c) ==
  {GoodToken(LoginPayload(IF c = 1 THEN 1 ELSE IF c = 2 THEN 4 ELSE 3))}

\* notifications that fail: customer 1 places the plain order and staff
\* member 3 or admin 4 adds catalog items while sockets come and go; the
\* commit and the insert may fail, the read-back succeeds, and any emit may
\* throw
NextNotify ==
  \/ \E c \in ConnIds : \E t \in CatalogTokensFor(c) : Connect(c, t)
  \/ \E c \in ConnIds : Disconnect(c)
  \/ PostOrder(1, LoginPayload(1), PlainBody)
  \/ GetConnection(1, TRUE)
  \/ BeginTransaction(1, TRUE)
  \/ InsertOrder(1, TRUE)
  \/ InsertItems(1, TRUE)
  \/ \E ok \in BOOLEAN, sent \in 0..1 : Commit(1, ok, sent)
  \/ \E m \in MenuReqIds, u \in {3, 4}, ok \in BOOLEAN, sent \in 0..2 :
        PostMenu(m, LoginPayload(u), 1, TRUE, ok, TRUE, sent)

SpecNotify == Init /\ [][NextNotify]_vars

\* bodies that probe the validation: item lists built from the plain tuple
\* and the odd ones, something that is no list, every schedule, a missing
\* payment method, and a status sent along
ValidationBodies ==
  {[PlainBody EXCEPT !.items = it] :
     it \in SeqsUpTo({PlainBody.items[1]} \cup OddTuples, MaxItems)}
  \cup {[PlainBody EXCEPT !.items = <<>>, !.isArray = FALSE]}
  \cup {[PlainBody EXCEPT !.order_type = ot, !.scheduled_at = sa] :
          ot \in {"asap", "scheduled"},
          sa \in {NoTime, BadTime} \cup {TimeAt(t) : t \in 0..(MaxClock + 1)}}
  \cup {[PlainBody EXCEPT !.payment_method = "none"],
        [PlainBody EXCEPT !.status = "completed"]}

\* one order request at a time of the clock, by customer 1 or staff member
\* 3, with any of the probing bodies and every database outcome
NextValidate ==
  \/ \E u \in {1, 3}, body \in ValidationBodies :
        PostOrder(1, LoginPayload(u), body)
  \/ \E ok \in BOOLEAN : GetConnection(1, ok)
  \/ \E ok \in BOOLEAN : BeginTransaction(1, ok)
  \/ \E ok \in BOOLEAN : InsertOrder(1, ok)
  \/ \E ok \in BOOLEAN : InsertItems(1, ok)
  \/ \E ok \in BOOLEAN : Commit(1, ok, 2)
  \/ reqs[1].pc = "idle" /\ Tick

SpecValidate == Init /\ [][NextValidate]_vars

\* status updates for orders that exist and orders that do not: customer 1
\* places the plain order; customer 2, staff member 3 and admin 4 send
\* status updates for order 1 and for the unknown order 2, the database
\* answering or failing
NextLookup ==
  \/ OneOrder({1}, {TRUE})
  \/ \E k \in UpdIds, u \in {2, 3, 4}, id \in {1, 2},
        status \in {"none", "confirmed", "bogus"}, payment \in {"none", "paid"},
        ok \in BOOLEAN :
        PutOrderStatus(k, LoginPayload(u), id, status, payment, ok)
  \/ \E k \in UpdIds, ok \in BOOLEAN : FetchUpdated(k, ok)

SpecLookup == Init /\ [][NextLookup]_vars

\* managing the catalog: sockets connect; a customer, a staff member and an
\* admin add, update and delete catalog items and add and update
\* categories; the write of every request succeeds, the read-back that
\* follows it succeeds or fails, and no emit throws
NextCatalog ==
  \/ \E c \in ConnIds : \E t \in CatalogTokensFor(c) : Connect(c, t)
  \/ \E m \in MenuReqIds, u \in {1, 3, 4}, fetched \in BOOLEAN :
        PostMenu(m, LoginPayload(u), 1, TRUE, TRUE, fetched, 2)
  \/ \E m \in MenuReqIds, u \in {1, 3, 4}, id \in 1..(NumMenuReqs + 1),
        fetched \in BOOLEAN :
        PutMenu(m, LoginPayload(u), id, 0, TRUE, TRUE, fetched, 2)
  \/ \E m \in MenuReqIds, u \in {1, 3, 4}, id \in 1..(NumMenuReqs + 1) :
        DeleteMenu(m, LoginPayload(u), id, TRUE, 2)
  \/ \E u \in {1, 3, 4}, fetched \in BOOLEAN :
        PostCategory(LoginPayload(u), TRUE, fetched)
  \/ \E u \in {1, 3, 4}, fetched \in BOOLEAN :
        PutCategory(LoginPayload(u), 1, 0, TRUE, fetched)

SpecCatalog == Init /\ [][NextCatalog]_vars

\* orders and the catalog: customer 1 places the plain order (one unit of
\* item 1) while staff member 3 and admin 4 delete catalog items, the
\* database answering or failing
NextDelete ==
  \/ OneOrder({1}, {TRUE})
  \/ \E m \in MenuReqIds, u \in {3, 4}, id \in 1..(NumMenuReqs + 1),
        ok \in BOOLEAN :
        DeleteMenu(m, LoginPayload(u), id, ok, 2)

SpecDelete == Init /\ [][NextDelete]_vars

\* the client reconciler on its own: any component with any fetched list
\* receives any event the server can send about the entities 1..MaxCache
NextReconcile ==
  \/ \E cc \in Collections :
       \E rows \in FetchedLists(cc[2], MaxCache) : Load(cc[1], cc[2], rows)
  \/ \E event \in Events, id \in EntityIds :
       \E payload \in PayloadsOf(event, id) : Receive(event, payload)

SpecReconcile == Init /\ [][NextReconcile]_vars

(* ------------------------------ properties ----------------------------- *)

ItemsOf(orderId) == {row \in order_items : row.order_id = orderId}

RECURSIVE SumSubtotals(_)
SumSubtotals(rows) ==
  IF rows = {} THEN 0
  ELSE LET row == CHOOSE x \in rows : TRUE IN
         row.subtotal + SumSubtotals(rows \ {row})

\* the steps of the transaction at which a request can fail
TxSteps == {"insertOrder", "insertItems", "commit"}

\* C1: order creation is atomic.  Every persisted header is the header of a
\* request answered 201 and is persisted together with one row for each
\* submitted line item; every persisted line item belongs to a persisted
\* header; a request that is still running, or whose header insert, item
\* insert or commit failed, has nothing persisted under its order id and,
\* once finished, has answered with a failure status.
C1_AtomicOrderCreation ==
  /\ \A o \in orders :
       \E r \in ReqIds :
         /\ reqs[r].pc = "done" /\ reqs[r].status = 201
         /\ reqs[r].orderId = o.order_id
         /\ Len(reqs[r].items) >= 1
         /\ ItemsOf(o.order_id) = OrderItemRows(o.order_id, reqs[r].items)
         /\ Cardinality(ItemsOf(o.order_id)) = Len(reqs[r].items)
  /\ \A row \in order_items : \E o \in orders : o.order_id = row.order_id
  /\ \A r \in ReqIds :
       reqs[r].status # 201 =>
         /\ \A o \in orders : o.order_id # reqs[r].orderId
         /\ ItemsOf(reqs[r].orderId) = {}
  /\ \A r \in ReqIds :
       (reqs[r].pc = "done" /\ reqs[r].failedAt \in TxSteps) =>
         reqs[r].status = 500

\* C1 witness: one request committed a two-line order while another one was
\* rolled back after its header had been written
C1_Witness ==
  \E r, q \in ReqIds :
    /\ reqs[r].status = 201 /\ Cardinality(ItemsOf(reqs[r].orderId)) = 2
    /\ reqs[q].pc = "done" /\ reqs[q].failedAt \in {"insertItems", "commit"}
    /\ reqs[q].orderId # 0

\* C2: for every persisted order, total_amount equals the sum of its
\* persisted line-item subtotals and every subtotal equals quantity times
\* the unit price of the submitted tuple (amounts compared in mills; a
\* DECIMAL(.,2) cent is 10 mills); a total sent by the client is not stored.
C2_TotalIsSumOfSubtotals ==
  \A o \in orders :
    /\ o.total_amount = SumSubtotals(ItemsOf(o.order_id))
    /\ \A r \in ReqIds :
         (reqs[r].status = 201 /\ reqs[r].orderId = o.order_id) =>
           /\ o.total_amount * 10 = Total(reqs[r].items)
           /\ \A row \in ItemsOf(o.order_id) :
                row.subtotal * 10
                  = row.quantity * reqs[r].items[row.line].price

\* the positions of the messages of operation op in a sequence of messages
MsgsOf(ms, op, event) ==
  {i \in DOMAIN ms : ms[i].op = op /\ ms[i].event = event}

CachedOrders == SeqsUpTo({OrderRow(id, 1, id, 1000) : id \in 1..2}, 2)

\* C4: after a successful status update of an order, order:update has been
\* emitted to the staff room and to the owner's room, and a cache holding
\* the order carries the message's status and payment status once the
\* message is reconciled.
C4_UpdateNotifiesOwner ==
  \A k \in UpdIds :
    (upds[k].pc = "done" /\ upds[k].code = 200) =>
      \A o \in orders :
        o.order_id = upds[k].orderId =>
          /\ \E i \in MsgsOf(published, UpdOp(k), "order:update") :
               published[i].room = AdminsRoom
          /\ \E i \in MsgsOf(published, UpdOp(k), "order:update") :
               /\ published[i].room = UserRoom(o.user_id)
               /\ \A prev \in CachedOrders : \A j \in DOMAIN prev :
                    prev[j].order_id = o.order_id =>
                      LET after == handleOrderUpdate(prev, published[i].payload)[j]
                      IN /\ after.status = published[i].payload.status
                         /\ after.payment_status
                              = published[i].payload.payment_status

\* C5: when the handling of an applied status update ends, every connected
\* socket of a staff member or admin and every connected socket of the
\* order's owner has received exactly one more message, an order:update,
\* and the sockets of other customers none.
C5_UpdateDeliveredOncePerAudience ==
  [][\A k \in UpdIds :
       (upds[k].pc = "fetch" /\ upds'[k].pc = "done") =>
         \A o \in orders : o.order_id = upds[k].orderId =>
           \A c \in ConnIds : conns[c].st = "open" =>
             IF conns[c].user.role \in {"staff", "admin"}
                \/ conns[c].user.userId = o.user_id
             THEN /\ Len(inbox'[c]) = Len(inbox[c]) + 1
                  /\ inbox'[c][Len(inbox'[c])].event = "order:update"
             ELSE inbox'[c] = inbox[c]]_vars

StaffOnlyEvents == {"order:new", "category:add", "category:update", "cart:activity"}

\* C6: a socket authenticated with role customer never holds a message of a
\* staff-only event.
C6_CustomerNeverGetsStaffOnly ==
  \A c \in ConnIds :
    (conns[c].st = "open" /\ conns[c].user.role = "customer") =>
      \A i \in DOMAIN inbox[c] : inbox[c][i].event \notin StaffOnlyEvents

\* C6 witness: a customer socket is connected and has filled its cart, and a
\* staff-side socket holds the cart activity and an order:new
C6_Witness ==
  \E c, a \in ConnIds :
    /\ conns[c].st = "open" /\ conns[c].user.role = "customer"
    /\ \E i \in DOMAIN inbox[a] :
         /\ inbox[a][i].event = "cart:activity"
         /\ inbox[a][i].payload.userId = conns[c].user.userId
    /\ \E i \in DOMAIN inbox[a] : inbox[a][i].event = "order:new"

\* C7: a connected socket whose role is staff or admin is in the staff room
\* and not in the customer room, a socket with any other role is in the
\* customer room and not in the staff room, and a socket with a subject id
\* is in the room of that id.
C7_RoomsByRole ==
  \A c \in ConnIds :
    conns[c].st = "open" =>
      LET u == conns[c].user IN
      /\ IF u.role \in {"staff", "admin"}
         THEN AdminsRoom \in conns[c].rooms /\ CustomersRoom \notin conns[c].rooms
         ELSE CustomersRoom \in conns[c].rooms /\ AdminsRoom \notin conns[c].rooms
      /\ u.userId # 0 => UserRoom(u.userId) \in conns[c].rooms

\* an identity with subject id, display name and role
Complete(u) == u.userId # 0 /\ u.named /\ u.role # "none"

\* C8: a socket whose token was absent, did not verify or lacked subject id,
\* display name or role is in no room and holds no message.
C8_IncompleteTokenRejected ==
  \A c \in ConnIds :
    ~Complete(conns[c].user) => conns[c].rooms = {} /\ inbox[c] = <<>>

\* the documented status machine: pending -> confirmed -> preparing ->
\* ready -> completed, and cancelled from any non-terminal status
LegalStatusStep(a, b) ==
  \/ a = b
  \/ <<a, b>> \in {<<"pending", "confirmed">>, <<"confirmed", "preparing">>,
                   <<"preparing", "ready">>, <<"ready", "completed">>}
  \/ b = "cancelled" /\ a \notin {"completed", "cancelled"}

\* C9: the persisted status of an order only ever changes along the
\* documented status machine.
C9_StatusFollowsMachine ==
  [][\A o \in orders : \A p \in orders' :
       p.order_id = o.order_id => LegalStatusStep(o.status, p.status)]_vars

\* the documented payment machine
LegalPaymentStep(a, b) ==
  \/ a = b
  \/ a = "pending" /\ b \in {"paid", "refunded"}
  \/ a = "paid" /\ b = "refunded"

\* C10: the persisted payment status of an order only ever changes along
\* pending -> paid, pending -> refunded, paid -> refunded.
C10_PaymentFollowsMachine ==
  [][\A o \in orders : \A p \in orders' :
       p.order_id = o.order_id
         => LegalPaymentStep(o.payment_status, p.payment_status)]_vars

\* the positions of the messages of operation op emitted to room
MsgsTo(ms, op, room) == {i \in DOMAIN ms : ms[i].op = op /\ ms[i].room = room}

\* C11: whether or not the emit threw and whoever was subscribed, an order
\* whose transaction committed is answered 201 and stays persisted with its
\* line items, a catalog item that was inserted is answered 201 and stays
\* persisted, and no notification is emitted a second time: each operation
\* has at most one message per room.
C11_NotificationFailureKeepsSuccess ==
  /\ \A r \in ReqIds : \A o \in orders :
       o.order_id = reqs[r].orderId => reqs[r].status = 201
  /\ \A r \in ReqIds :
       reqs[r].status = 201 =>
         /\ \E o \in orders : o.order_id = reqs[r].orderId
         /\ ItemsOf(reqs[r].orderId) # {}
         /\ Cardinality(MsgsOf(published, OrderOp(r), "order:new")) <= 1
  /\ \A m \in MenuReqIds :
       /\ (menuReqs[m].kind = "add" /\ menuReqs[m].itemId # 0) =>
            /\ menuReqs[m].code = 201
            /\ \E row \in menu_items : row.item_id = menuReqs[m].itemId
       /\ \A room \in {AdminsRoom, CustomersRoom} :
            Cardinality(MsgsTo(published, MenuOp(m), room)) <= 1

\* C11 witness: an order answered 201 whose emit threw, a catalog item
\* answered 201 whose second emit threw, and a catalog item answered 201
\* whose messages reached no socket
C11_Witness ==
  /\ \E r \in ReqIds :
       /\ reqs[r].status = 201
       /\ MsgsOf(published, OrderOp(r), "order:new") = {}
  /\ \E m, n \in MenuReqIds :
       /\ menuReqs[m].code = 201 /\ menuReqs[n].code = 201
       /\ MsgsTo(published, MenuOp(m), AdminsRoom) # {}
       /\ MsgsTo(published, MenuOp(m), CustomersRoom) = {}
       /\ MsgsTo(published, MenuOp(n), CustomersRoom) # {}
       /\ \A c \in ConnIds : MsgsTo(inbox[c], MenuOp(n), CustomersRoom) = {}
       /\ \A c \in ConnIds : MsgsTo(inbox[c], MenuOp(n), AdminsRoom) = {}

\* C12: every order:new that was emitted belongs to a request whose
\* transaction has committed: the order of its payload is a persisted row
\* with that order number and the request was answered 201; a request still
\* running or rolled back has no order:new.
C12_OrderNewOnlyAfterCommit ==
  \A i \in DOMAIN published :
    published[i].event = "order:new" =>
      /\ \E o \in orders :
           /\ o.order_id = published[i].payload.orderId
           /\ o.order_number = published[i].payload.orderNumber
      /\ \E r \in ReqIds :
           /\ published[i].op = OrderOp(r)
           /\ reqs[r].pc = "done" /\ reqs[r].status = 201
           /\ reqs[r].orderId = published[i].payload.orderId

\* C12 witness: one request has committed and emitted its order:new while
\* another one, whose commit failed after all its rows had been written, has
\* emitted none
C12_Witness ==
  \E r, q \in ReqIds :
    /\ reqs[r].status = 201
    /\ MsgsOf(published, OrderOp(r), "order:new") # {}
    /\ reqs[q].pc = "done" /\ reqs[q].failedAt = "commit"
    /\ MsgsOf(published, OrderOp(q), "order:new") = {}

\* C13: an order request of a customer whose items are an empty list or no
\* list is answered 400 by the validation and gets no further: it is given
\* no order id, writes no row and emits no order:new.
C13_EmptyItemsRejected ==
  \A r \in ReqIds :
    (/\ reqs[r].pc # "idle"
     /\ reqs[r].user.role = "customer"
     /\ (~reqs[r].isArray \/ Len(reqs[r].items) = 0)) =>
      /\ reqs[r].pc = "done"
      /\ reqs[r].status = 400 /\ reqs[r].failedAt = "validation"
      /\ reqs[r].orderId = 0 /\ reqs[r].txOrder = {}
      /\ MsgsOf(published, OrderOp(r), "order:new") = {}

\* C14: an order request of a customer that asks for a scheduled order and
\* whose scheduled_at is missing, is no date, or is not later than the time
\* of the submission is answered 400 by the validation and writes nothing.
\* (orderNumber holds the time of the submission.)
C14_BadScheduleRejected ==
  \A r \in ReqIds :
    (/\ reqs[r].pc # "idle"
     /\ reqs[r].user.role = "customer"
     /\ reqs[r].order_type = "scheduled"
     /\ \/ reqs[r].scheduled_at.kind # "time"
        \/ reqs[r].scheduled_at.t <= reqs[r].orderNumber) =>
      /\ reqs[r].pc = "done"
      /\ reqs[r].status = 400 /\ reqs[r].failedAt = "validation"
      /\ reqs[r].orderId = 0 /\ reqs[r].txOrder = {}

\* C15: an order request of a customer in which some quantity or some item
\* id is not a positive integer is answered 400 by the validation before
\* any transaction is opened: it is given no order id and writes nothing.
C15_BadQuantityOrItemRejected ==
  \A r \in ReqIds :
    (/\ reqs[r].pc # "idle"
     /\ reqs[r].user.role = "customer"
     /\ \E i \in DOMAIN reqs[r].items :
          \/ reqs[r].items[i].half
          \/ reqs[r].items[i].quantity < 1
          \/ reqs[r].items[i].item_id < 1) =>
      /\ reqs[r].pc = "done"
      /\ reqs[r].status = 400 /\ reqs[r].failedAt = "validation"
      /\ reqs[r].orderId = 0 /\ reqs[r].txOrder = {}

\* C16: every order is persisted at creation with status pending and payment
\* status pending, whatever the request body contains: a header row whose
\* order id was not there before the step is pending / pending.
C16_CreatedPending ==
  [][\A o \in orders' :
       (\A p \in orders : p.order_id # o.order_id)
         => o.status = "pending" /\ o.payment_status = "pending"]_vars

\* an order was committed for a body that carried status 'completed'
C16_Witness ==
  /\ reqs[1].pc = "done"
  /\ reqs[1].status = 201
  /\ reqs[1].bodyStatus = "completed"
  /\ \E o \in orders : o.order_id = reqs[1].orderId

\* C17: no two committed orders ever share an order number, also when two
\* submissions are numbered in the same millisecond; and a submission whose
\* number collides with that of a committed order is answered with an error
\* and leaves nothing behind: its step changes no committed row and its
\* transaction holds no row afterwards.
C17_UniqueOrderNumbers ==
  /\ [](\A o1 \in orders, o2 \in orders :
          o1.order_number = o2.order_number => o1 = o2)
  /\ [][\A r \in ReqIds :
          (/\ reqs[r].pc = "insertOrder"
           /\ \E o \in orders : o.order_number = reqs[r].orderNumber
           /\ reqs'[r] # reqs[r])
            => /\ reqs'[r].pc = "done"
               /\ reqs'[r].status = 500
               /\ reqs'[r].txOrder = {} /\ reqs'[r].txItems = {}
               /\ orders' = orders /\ order_items' = order_items
               /\ published' = published]_vars

\* two submissions numbered in the same millisecond, both finished: the
\* first one committed under that number, the second one failed at the
\* insert of its header
C17_Witness ==
  /\ reqs[1].pc = "done" /\ reqs[1].status = 201
  /\ reqs[2].pc = "done" /\ reqs[2].status = 500
  /\ reqs[2].failedAt = "insertOrder"
  /\ now = 1
  /\ \E o \in orders : o.order_number = now /\ o.order_id = reqs[1].orderId

\* C18: a status update for an order id that matches no order changes no
\* persisted order, emits no order:update and fails; sent by a staff member
\* or an admin with a valid field while the database answers, it fails with
\* 404 not-found.
C18_UnknownOrderNotFound ==
  [][\A k \in UpdIds :
        (/\ upds[k].pc = "idle"
         /\ upds'[k].pc # "idle"
         /\ ~\E o \in orders : o.order_id = upds'[k].orderId)
          => /\ orders' = orders
             /\ published' = published
             /\ inbox' = inbox
             /\ upds'[k].pc = "done"
             /\ ~upds'[k].emitted
             /\ upds'[k].code >= 400
             /\ \A u \in {3, 4}, status \in StatusInputs,
                   payment \in PaymentInputs :
                   (/\ status \in AllowedStatus \/ payment \in AllowedPayment
                    /\ PutOrderStatus(k, LoginPayload(u), upds'[k].orderId,
                                      status, payment, TRUE))
                     => upds'[k].code = 404]_vars

\* the route of part_004 has answered 404 for order 2 while order 1 exists
C18_Witness ==
  /\ build = "part_004"
  /\ \E o \in orders : o.order_id = 1
  /\ \E k \in UpdIds :
        /\ upds[k].pc = "done"
        /\ upds[k].orderId = 2
        /\ upds[k].code = 404

\* C19: a status update that supplies only status leaves the payment status
\* unchanged, one that supplies only payment_status leaves the status
\* unchanged, and no status update changes the total amount, the owner or
\* the order number of any order, adds or removes an order, or touches the
\* line items.
C19_UpdateFrame ==
  [][\A k \in UpdIds :
        (upds[k].pc = "idle" /\ upds'[k].pc # "idle")
          => /\ order_items' = order_items
             /\ {[order_id |-> o.order_id, user_id |-> o.user_id,
                   order_number |-> o.order_number,
                   total_amount |-> o.total_amount] : o \in orders'}
                = {[order_id |-> o.order_id, user_id |-> o.user_id,
                    order_number |-> o.order_number,
                    total_amount |-> o.total_amount] : o \in orders}
             /\ Cardinality(orders') = Cardinality(orders)
             /\ \A u \in {3, 4}, status \in StatusInputs,
                   payment \in PaymentInputs :
                   PutOrderStatus(k, LoginPayload(u), upds'[k].orderId,
                                  status, payment, TRUE)
                     => \A o \in orders : \A p \in orders' :
                          p.order_id = o.order_id
                            => /\ payment = "none"
                                    => p.payment_status = o.payment_status
                               /\ status = "none" => p.status = o.status]_vars

\* both updates were applied to order 1, which is now paid and no longer
\* pending: the state a payment-only update followed by a status-only
\* update leads to
C19_Witness ==
  /\ \A k \in {1, 2} : upds[k].pc = "done" /\ upds[k].code = 200
  /\ \E o \in orders : /\ o.order_id = 1
                        /\ o.payment_status = "paid"
                        /\ o.status = "confirmed"
                        /\ o.total_amount = 100
                        /\ o.user_id = 1
  /\ \E row \in order_items : row.order_id = 1

\* C20: every committed catalog item add, update or delete is published to
\* both the staff room and the customers room, and every committed category
\* add or update is published to the staff room only: a step that changes
\* menu_items appends one message of the menu event to 'admins' and one to
\* 'customers', and a step that changes categories appends one message of
\* the category event to 'admins' and none to 'customers'.
C20_CatalogChangesPublished ==
  [][/\ menu_items' # menu_items
        => /\ Len(published') = Len(published) + 2
           /\ LET a == published'[Len(published) + 1]
                  b == published'[Len(published) + 2]
              IN /\ {a.room, b.room} = {AdminsRoom, CustomersRoom}
                 /\ a.event = b.event
                 /\ a.event \in {"menu:item:add", "menu:item:update",
                                  "menu:item:delete"}
     /\ categories' # categories
        => /\ Len(published') = Len(published) + 1
           /\ LET a == published'[Len(published) + 1]
              IN /\ a.room = AdminsRoom
                 /\ a.event \in {"category:add", "category:update"}]_vars

\* C21: after any sequence of operations, deletions of catalog items
\* included, every committed order still exists and still owns the
\* non-empty set of line items it was created with: the order of a request
\* answered 201 is persisted together with one row for each tuple
\* submitted.
C21_OrdersKeepTheirItems ==
  \A r \in ReqIds :
    (reqs[r].pc = "done" /\ reqs[r].status = 201)
      => /\ \E o \in orders : o.order_id = reqs[r].orderId
         /\ ItemsOf(reqs[r].orderId) # {}
         /\ ItemsOf(reqs[r].orderId)
              = OrderItemRows(reqs[r].orderId, reqs[r].items)

\* the cache after the mounted component has handled the event
After(cache, event, payload) ==
  Reconcile(client.comp, client.coll, cache, event, payload)

\* the entity id is in the list: under the key of the fetched rows, or, for
\* an order, under orderId of an order:new summary
Cached(coll, list, id) ==
  \E j \in DOMAIN list :
    \/ Has(list[j], IdField(coll)) /\ list[j][IdField(coll)] = id
    \/ coll = "orders" /\ Has(list[j], "orderId") /\ list[j].orderId = id

\* C22: applying the same add message (menu:item:add, order:new,
\* category:add) twice to a client cache leaves the cache as applying it
\* once does, and an entity cached once is not cached a second time.
C22_AddIdempotent ==
  client.comp # "none" =>
    \A event \in AddEvents, id \in EntityIds :
      \A payload \in PayloadsOf(event, id) :
        LET once == After(client.cache, event, payload)
        IN After(once, event, payload) = once

\* C23: applying the same menu:item:delete twice to a client cache leaves
\* the cache as applying it once does, removes every entry of the item, and
\* leaves a cache that does not hold the item unchanged.
C23_DeleteIdempotent ==
  client.comp # "none" =>
    \A id \in EntityIds :
      \A payload \in PayloadsOf("menu:item:delete", id) :
        LET once == After(client.cache, "menu:item:delete", payload)
        IN /\ After(once, "menu:item:delete", payload) = once
           /\ ~Cached(client.coll, client.cache, id) => once = client.cache
           /\ client.coll = "menuItems" => ~Cached(client.coll, once, id)

\* a component has handled the delete of an item it cached: the item is
\* gone, another item is still cached
C23_Witness ==
  /\ client.comp \in {"Menu", "AdminDashboard"}
  /\ client.coll = "menuItems"
  /\ client.last.event = "menu:item:delete"
  /\ Cached("menuItems", client.before, client.last.id)
  /\ ~Cached("menuItems", client.cache, client.last.id)
  /\ Len(client.cache) = Len(client.before) - 1
  /\ client.cache # <<>>

\* C24: an update message (menu:item:update, order:update, category:update)
\* whose entity id is not in the client's cache leaves that cache unchanged.
C24_UnknownUpdateDropped ==
  client.comp # "none" =>
    \A event \in UpdateEvents, id \in EntityIds :
      \A payload \in PayloadsOf(event, id) :
        ~Cached(client.coll, client.cache, id)
          => After(client.cache, event, payload) = client.cache

\* a component holding a cache has handled an update for an entity that
\* was not in it
C24_Witness ==
  /\ client.last.event \in UpdateEvents
  /\ client.before # <<>>
  /\ ~Cached(client.coll, client.before, client.last.id)
  /\ client.cache = client.before
  /\ \E cc \in Collections :
        /\ cc[1] = client.comp /\ cc[2] = client.coll
        /\ client.last.event \in
             (IF cc[2] = "menuItems" THEN {"menu:item:update"}
              ELSE IF cc[2] = "orders" THEN {"order:update"}
              ELSE {"category:update"})

\* sockets connecting and adding to their carts around one placed order
NextCart ==
  \/ \E c \in ConnIds : \E t \in CatalogTokensFor(c) : Connect(c, t)
  \/ OneOrder({1}, {TRUE})
  \/ \E c \in ConnIds, valid \in BOOLEAN : CartAdd(c, valid)

SpecCart == Init /\ [][NextCart]_vars

\* C25: a cart:add event has no effect other than at most one cart:activity
\* message to the staff room: it is delivered to no connection in the
\* customers room, to each other connection at most once, and it changes no
\* persisted order, line item, catalog item or category.
C25_CartAddOnlyNotifiesStaff ==
  [][(/\ published' # published
       /\ \E c \in ConnIds, valid \in BOOLEAN : CartAdd(c, valid)) =>
         /\ <<orders, order_items, menu_items, categories>>'
              = <<orders, order_items, menu_items, categories>>
         /\ Len(published') = Len(published) + 1
         /\ LET m == published'[Len(published')] IN
            /\ m.event = "cart:activity"
            /\ m.room = AdminsRoom
            /\ \A d \in ConnIds :
                 IF CustomersRoom \in conns[d].rooms
                 THEN inbox'[d] = inbox[d]
                 ELSE inbox'[d] \in {inbox[d], Append(inbox[d], m)}]_vars

\* a cart:add of a customer's socket was relayed: a socket in the staff room
\* has received cart:activity, the sender's socket in the customers room
\* has received nothing
C25_Witness ==
  \E i \in DOMAIN published :
    /\ published[i].event = "cart:activity"
    /\ \E d \in ConnIds :
         /\ AdminsRoom \in conns[d].rooms
         /\ \E j \in DOMAIN inbox[d] : inbox[d][j] = published[i]
    /\ \E c \in ConnIds :
         /\ conns[c].st = "open"
         /\ CustomersRoom \in conns[c].rooms
         /\ conns[c].user.userId = published[i].payload.userId
         /\ inbox[c] = <<>>

\* registrations racing with each other, with any role and any outcome of
\* the database
NextRegister ==
  \/ \E g \in RegIds, role \in RoleInputs, valid \in BOOLEAN :
        PostRegister(g, role, valid)
  \/ \E g \in RegIds, ok \in BOOLEAN : CountAdmins(g, ok)
  \/ \E g \in RegIds, ok \in BOOLEAN : InsertUser(g, ok)

SpecRegister == Init /\ [][NextRegister]_vars

\* C26: at most two accounts have the role admin, also when several admin
\* registrations are processed concurrently.
C26_AtMostTwoAdmins == AdminCount(users) <= AdminLimit

\* C29: on every path through order creation the pooled connection that was
\* acquired is released exactly once: a request holds a connection exactly
\* while it is between db.getConnection and its response, and once it has
\* responded it has released as many connections as it acquired - none when
\* db.getConnection failed or was never reached, otherwise one.
C29_ConnectionReleasedOnce ==
  \A r \in ReqIds :
    /\ pool[r].acquired \in {0, 1}
    /\ reqs[r].pc \in {"idle", "getConnection"} => pool[r] = NoLease
    /\ reqs[r].pc \in {"beginTransaction"} \cup TxSteps =>
         pool[r] = [acquired |-> 1, released |-> 0]
    /\ reqs[r].pc = "done" =>
         /\ pool[r].released = pool[r].acquired
         /\ pool[r].acquired = 1 <=>
              reqs[r].failedAt \in {"beginTransaction", "insertOrder",
                                    "insertItems", "commit", "none"}
                /\ reqs[r].status \in {201, 500}

\* one request failed at its commit, another one succeeded, and each has
\* released the one connection it acquired
C29_Witness ==
  \E r, q \in ReqIds :
    /\ reqs[r].pc = "done" /\ reqs[r].failedAt = "commit"
    /\ reqs[q].pc = "done" /\ reqs[q].status = 201
    /\ pool[r] = [acquired |-> 1, released |-> 1]
    /\ pool[q] = [acquired |-> 1, released |-> 1]

\* C27: an order that entered the staff client's cache through an order:new
\* message is updated there by a later order:update message for the same
\* order: once the update is handled, the cache holds an entry of that order
\* that shows a status.
C27_NewOrderFollowsUpdates ==
  [][(/\ client.comp = "AdminDashboard" /\ client.coll = "orders"
      /\ client'.last.event = "order:update"
      /\ client'.before = client.cache
      /\ \E j \in DOMAIN client.cache :
           /\ Has(client.cache[j], "orderId")
           /\ client.cache[j].orderId = client'.last.id)
     => \E i \in DOMAIN client'.cache :
           /\ Has(client'.cache[i], "status")
           /\ \/ Has(client'.cache[i], "order_id")
                   /\ client'.cache[i].order_id = client'.last.id
              \/ Has(client'.cache[i], "orderId")
                   /\ client'.cache[i].orderId = client'.last.id]_vars

\* a browser mounting the customer menu or the staff dashboard on an open
\* socket while an admin adds, withdraws and deletes catalog items
NextFetch ==
  \/ \E c \in {1, 2} : \E t \in CatalogTokensFor(c) : Connect(c, t)
  \/ \E m \in MenuReqIds :
        PostMenu(m, LoginPayload(4), 1, TRUE, TRUE, TRUE, 2)
  \/ \E m \in MenuReqIds, id \in 1..(NumMenuReqs + 1) :
        PutMenu(m, LoginPayload(4), id, 0, TRUE, TRUE, TRUE, 2)
  \/ \E m \in MenuReqIds, id \in 1..(NumMenuReqs + 1) :
        DeleteMenu(m, LoginPayload(4), id, TRUE, 2)
  \/ Mount("Menu", 1)
  \/ Mount("AdminDashboard", 2)
  \/ ServeFetch
  \/ OnMessage
  \/ ApplyFetch

SpecFetch == Init /\ [][NextFetch]_vars

\* C28: an event the client handled while its fetch of the collection was in
\* flight is not lost: when the fetch response has been applied, the cache
\* reflects each such event that no later handled event about the same
\* entity superseded - handling it again would change nothing.
C28_EventsSurviveFetch ==
  [][(client.fetch = "served" /\ client'.fetch = "done") =>
       \A i \in (client.since + 1)..client.cursor :
         LET m == inbox[client.conn][i] IN
         (\A j \in (i + 1)..client.cursor :
            PayloadId(inbox[client.conn][j].payload) # PayloadId(m.payload))
         => Reconcile(client.comp, client.coll, client'.cache,
                      m.event, m.payload) = client'.cache]_vars

\* sockets connecting with every kind of token and closing while an admin
\* adds catalog items
NextRooms ==
  \/ \E c \in ConnIds : \E t \in TokensFor(c) : Connect(c, t)
  \/ \E c \in ConnIds : Disconnect(c)
  \/ \E m \in MenuReqIds, fetched \in BOOLEAN :
        PostMenu(m, LoginPayload(4), 1, TRUE, TRUE, fetched, 2)

SpecRooms == Init /\ [][NextRooms]_vars

\* C30: every live connection is in exactly one of the two broadcast rooms
\* (admins, customers) and in exactly one user room; its rooms do not change
\* while it lives; and a catalog event published to both broadcast rooms is
\* delivered to each live connection exactly once.
C30_OneBroadcastOneSubjectRoom ==
  /\ [](\A c \in ConnIds :
          conns[c].st = "open" =>
            /\ Cardinality(conns[c].rooms \cap {AdminsRoom, CustomersRoom}) = 1
            /\ Cardinality({x \in conns[c].rooms : x.kind = "user"}) = 1)
  /\ [][/\ \A c \in ConnIds :
            conns[c].st = "open" /\ conns'[c].st = "open" =>
              conns'[c].rooms = conns[c].rooms
        /\ published' # published =>
             \A c \in ConnIds :
               conns[c].st = "open" =>
                 /\ Len(inbox'[c]) = Len(inbox[c]) + 1
                 /\ inbox'[c][Len(inbox'[c])].event = "menu:item:add"]_vars
====
